---------------------------- MODULE Spec2Model ----------------------------
(***************************************************************************)
(* Category hierarchy, read-through / write-invalidate cache and          *)
(* product_count maintenance of the product-catalog service.               *)
(*                                                                         *)
(* Store rows are functions from ids to records; ids are UUIDs in the      *)
(* code and are never reused, so the model allocates them from a counter.  *)
(* A handler is a pure operator from a world (Store + Cache) and its       *)
(* arguments to the world after the call and the returned result; the      *)
(* actions apply one handler per step (one request at a time), and the     *)
(* concurrent specification splits the product handlers at their commits.  *)
(*                                                                         *)
(* The services are read at the level of their control flow: the local     *)
(* variable that product_service.py calls both ProductModel and product,   *)
(* the display_order column the service uses for Category.sort_order and   *)
(* the expire= keyword of cache.set are taken as the names they stand for. *)
(* The entity helpers of the cache (get_category, set_category,            *)
(* delete_category, get_product, set_product, delete_product) are called   *)
(* by the services but defined nowhere; they are modelled from the         *)
(* specification (snapshot per entity id, deleted on invalidation).        *)
(***************************************************************************)
EXTENDS Integers, FiniteSets, Sequences, TLC

VARIABLES
    cats,            \* Store: category id -> row
    next_cat,        \* the next category id to hand out
    category_cache,  \* Cache: category id -> snapshot
    redis,           \* Cache: string key -> value (the tree variants)
    products,        \* Store: product id -> row
    next_prod,       \* the next product id to hand out
    product_cache,   \* Cache: product id -> snapshot
    brands,          \* Store: brand id -> product_count
    last,            \* the last completed call: operation, arguments, result
    nc_cats,         \* Store of the same service run without a usable cache
    nc_last,         \* the last result of that run
    pc,              \* concurrent requests: per request its position and locals
    brand_reviews,   \* brands table: per brand its rating and review_count
    brand_cache,     \* brand entries of the cache: per brand id a snapshot
    views,           \* categories.view_count: category id -> count
    stock,           \* products.stock_quantity: product id -> quantity
    stock_cache,     \* stock_quantity of the cached product entries
    user,            \* the users row of one account
    now,             \* the clock datetime.utcnow() reads
    stock_net        \* per product, the net amount of the add/subtract calls that returned

vars == <<cats, next_cat, category_cache, redis, products, next_prod,
          product_cache, brands, last, nc_cats, nc_last, pc,
          brand_reviews, brand_cache, views, stock, stock_cache, user, now, stock_net>>

\* ------------------------------------------------------------------ bounds
MaxCats == 3
MaxTreeCats == 2
MaxProds == 2
MaxCount == 3
MaxConcProds == 1

Null == 0

\* A float as the exact fraction num / den, den > 0, in lowest terms.
RECURSIVE GCD(_, _)
GCD(a, b) == IF b = 0 THEN a ELSE GCD(b, a % b)

Abs(n) == IF n < 0 THEN 0 - n ELSE n

Frac(n, d) ==
    LET g == GCD(Abs(n), d)
    IN [num |-> n \div g, den |-> d \div g]

Zero == Frac(0, 1)
CatIds == 1..MaxCats
ProdIds == 1..MaxProds
BrandIds == {1, 2}

\* ------------------------------------------------------------ generic cache
\* CacheService.get: a Redis error is logged and read as a miss.
CacheHas(up, store, key) == up /\ key \in DOMAIN store

\* CacheService.set: a Redis error is logged and the entry is not written.
CacheSet(up, store, key, value) ==
    IF up
    THEN [k \in DOMAIN store \cup {key} |-> IF k = key THEN value ELSE store[k]]
    ELSE store

\* CacheService.delete: removes exactly the key it is given.
CacheDelete(up, store, key) ==
    IF up
    THEN [k \in DOMAIN store \ {key} |-> store[k]]
    ELSE store

\* Entity helpers of the cache (cache.get_category / set_category /
\* delete_category and the product ones): one snapshot per entity id.
CacheHasEntity(up, store, id) == CacheHas(up, store, id)

CacheSetEntity(up, store, id, snapshot) == CacheSet(up, store, id, snapshot)

CacheDeleteEntity(up, store, id) == CacheDelete(up, store, id)

TreeKey(active_only) ==
    IF active_only THEN "category_tree_active" ELSE "category_tree_all"

\* ------------------------------------------------------------------- Store
Children(cs, id) == {c \in DOMAIN cs : cs[c].parent_id = id}

\* What a loaded Category carries: its columns and the selectinload-ed
\* children collection.
Snapshot(cs, id) ==
    [id |-> id,
     parent_id |-> cs[id].parent_id,
     children |-> Children(cs, id),
     product_count |-> cs[id].product_count,
     is_active |-> cs[id].is_active,
     is_featured |-> cs[id].is_featured,
     display_order |-> cs[id].display_order]

NoCategory ==
    [id |-> Null, parent_id |-> Null, children |-> {}, product_count |-> 0,
     is_active |-> FALSE, is_featured |-> FALSE, display_order |-> 0]

\* Rows removed when the rows in ids are deleted: the foreign key
\* categories.parent_id is declared ON DELETE CASCADE by the Category model
\* the services are written against.
RECURSIVE CascadeClosure(_, _)
CascadeClosure(cs, ids) ==
    LET more == {c \in DOMAIN cs : cs[c].parent_id \in ids} \ ids
    IN IF more = {} THEN ids ELSE CascadeClosure(cs, ids \cup more)

\* Mutant: only the rows named are removed; rows that point at them stay.
DeleteRowsNoCascade(cs, ids) == [c \in DOMAIN cs \ ids |-> cs[c]]

DeleteRows(cs, ids) ==
    LET gone == CascadeClosure(cs, ids \cap DOMAIN cs)
    IN [c \in DOMAIN cs \ gone |-> cs[c]]

\* products.category reference is ON DELETE SET NULL: a deleted category is
\* detached from the products that referenced it.
DetachProducts(ps, cs) ==
    [p \in DOMAIN ps |-> [ps[p] EXCEPT !.categories = @ \cap DOMAIN cs]]

\* The foreign key on parent_id: a row may only point at an existing row.
ForeignKeysHold(cs) ==
    \A c \in DOMAIN cs : cs[c].parent_id = Null \/ cs[c].parent_id \in DOMAIN cs

World(cs, cc, kv, ps, pcache, bs) ==
    [cats |-> cs, category_cache |-> cc, redis |-> kv, products |-> ps,
     product_cache |-> pcache, brands |-> bs]

Result(w, status, val) == [w |-> w, status |-> status, val |-> val]

\* --------------------------------------------------------- CategoryService
\* get_category: cache first, then the Store; a Store hit is written to the
\* cache, a miss in the Store is not.
get_category(w, up, category_id) ==
    IF CacheHasEntity(up, w.category_cache, category_id)
    THEN [w |-> w, val |-> w.category_cache[category_id], found |-> TRUE]
    ELSE IF category_id \in DOMAIN w.cats
         THEN [w |-> [w EXCEPT !.category_cache =
                          CacheSetEntity(up, @, category_id, Snapshot(w.cats, category_id))],
               val |-> Snapshot(w.cats, category_id),
               found |-> TRUE]
         ELSE [w |-> w, val |-> NoCategory, found |-> FALSE]

\* _would_create_circular_reference: walk parent_id upwards from the new
\* parent, reading the Store, until the category, a null parent or an id
\* already visited.
\* Mutant: the walk looks at the new parent and its parent only.
CircularWalkOneHop(cs, category_id, current_id, visited) ==
    \/ current_id = category_id
    \/ /\ current_id \in DOMAIN cs
       /\ cs[current_id].parent_id = category_id

RECURSIVE CircularWalk(_, _, _, _)
CircularWalk(cs, category_id, current_id, visited) ==
    IF current_id = Null \/ current_id \in visited THEN FALSE
    ELSE IF current_id = category_id THEN TRUE
    ELSE CircularWalk(cs, category_id,
                      IF current_id \in DOMAIN cs THEN cs[current_id].parent_id ELSE Null,
                      visited \cup {current_id})

\* Mutant: only a move under itself is seen as circular.
CircularSelfOnly(cs, category_id, new_parent_id) == new_parent_id = category_id

_would_create_circular_reference(cs, category_id, new_parent_id) ==
    CircularWalk(cs, category_id, new_parent_id, {})

\* A commit of a change to row id: it fails (the exception propagates, no
\* cache call follows) when the row is gone or a foreign key would dangle.
CommitOk(cs_before, cs_after, id) ==
    id \in DOMAIN cs_before /\ ForeignKeysHold(cs_after)

InvalidateCategory(w, up, category_id) ==
    [w EXCEPT !.category_cache = CacheDeleteEntity(up, @, category_id),
              !.redis = CacheDelete(up, @, "category_tree")]

\* create_category(category_data): data = [parent_id, display_order,
\* is_active, is_featured]; new_id is the UUID the row gets.
create_category(w, up, new_id, data) ==
    LET g == IF data.parent_id # Null
             THEN get_category(w, up, data.parent_id)
             ELSE [w |-> w, val |-> NoCategory, found |-> TRUE]
        row == [parent_id |-> data.parent_id,
                product_count |-> 0,
                is_active |-> data.is_active,
                is_featured |-> data.is_featured,
                display_order |-> data.display_order]
        cs2 == [c \in DOMAIN g.w.cats \cup {new_id} |->
                    IF c = new_id THEN row ELSE g.w.cats[c]]
        w2 == [g.w EXCEPT !.cats = cs2]
        w3 == [w2 EXCEPT !.category_cache = CacheSetEntity(up, @, new_id, Snapshot(cs2, new_id)),
                         !.redis = CacheDelete(up, @, "category_tree")]
    IN IF ~g.found THEN Result(g.w, "validation", NoCategory)
       ELSE IF ~ForeignKeysHold(cs2) THEN Result(g.w, "store_error", NoCategory)
       ELSE Result(w3, "ok", Snapshot(cs2, new_id))

\* update_category(category_id, category_data): data carries, per field, an
\* is-set flag (exclude_unset) and the value.
update_category(w, up, category_id, data) ==
    LET g1 == get_category(w, up, category_id)
        check == data.has_parent /\ data.parent_id # Null
        g2 == IF check
              THEN get_category(g1.w, up, data.parent_id)
              ELSE [w |-> g1.w, val |-> NoCategory, found |-> TRUE]
        cs == g2.w.cats
        row == IF category_id \in DOMAIN cs
               THEN [cs[category_id] EXCEPT
                       !.parent_id = IF data.has_parent THEN data.parent_id ELSE @,
                       !.is_active = IF data.has_active THEN data.is_active ELSE @,
                       !.is_featured = IF data.has_featured THEN data.is_featured ELSE @,
                       !.display_order = IF data.has_order THEN data.display_order ELSE @]
               ELSE [parent_id |-> Null, product_count |-> 0, is_active |-> FALSE,
                     is_featured |-> FALSE, display_order |-> 0]
        cs2 == [c \in DOMAIN cs |-> IF c = category_id THEN row ELSE cs[c]]
        w3 == InvalidateCategory([g2.w EXCEPT !.cats = cs2], up, category_id)
    IN IF ~g1.found THEN Result(g1.w, "not_found", NoCategory)
       ELSE IF ~g2.found THEN Result(g2.w, "validation", NoCategory)
       ELSE IF check /\ _would_create_circular_reference(cs, category_id, data.parent_id)
            THEN Result(g2.w, "validation", NoCategory)
       ELSE IF ~CommitOk(cs, cs2, category_id) THEN Result(g2.w, "store_error", NoCategory)
       ELSE Result(w3, "ok", Snapshot(cs2, category_id))

\* move_category(category_id, move_data): has_position is
\* new_position is not None.
\* Mutant: the new parent is written and committed before the circular
\* reference check raises.
MoveCommitThenCheck(w, up, category_id, new_parent_id, has_position, new_position) ==
    LET g1 == get_category(w, up, category_id)
        g2 == IF new_parent_id # Null
              THEN get_category(g1.w, up, new_parent_id)
              ELSE [w |-> g1.w, val |-> NoCategory, found |-> TRUE]
        cs == g2.w.cats
        row == IF category_id \in DOMAIN cs
               THEN [cs[category_id] EXCEPT
                       !.parent_id = new_parent_id,
                       !.display_order = IF has_position THEN new_position ELSE @]
               ELSE [parent_id |-> Null, product_count |-> 0, is_active |-> FALSE,
                     is_featured |-> FALSE, display_order |-> 0]
        cs2 == [c \in DOMAIN cs |-> IF c = category_id THEN row ELSE cs[c]]
        w3 == InvalidateCategory([g2.w EXCEPT !.cats = cs2], up, category_id)
    IN IF ~g1.found THEN Result(g1.w, "not_found", NoCategory)
       ELSE IF ~g2.found THEN Result(g2.w, "validation", NoCategory)
       ELSE IF ~CommitOk(cs, cs2, category_id) THEN Result(g2.w, "store_error", NoCategory)
       ELSE IF new_parent_id # Null
               /\ _would_create_circular_reference(cs, category_id, new_parent_id)
            THEN Result(w3, "validation", NoCategory)
       ELSE Result(w3, "ok", Snapshot(cs2, category_id))

\* Mutant: a move to a position makes room for the category, pushing the
\* categories already under the new parent at that position or after it one
\* place down.
MoveShiftsSiblings(w, up, category_id, new_parent_id, has_position, new_position) ==
    LET g1 == get_category(w, up, category_id)
        g2 == IF new_parent_id # Null
              THEN get_category(g1.w, up, new_parent_id)
              ELSE [w |-> g1.w, val |-> NoCategory, found |-> TRUE]
        cs == g2.w.cats
        cs2 == [c \in DOMAIN cs |->
                  IF c = category_id
                  THEN [cs[c] EXCEPT
                          !.parent_id = new_parent_id,
                          !.display_order = IF has_position THEN new_position ELSE @]
                  ELSE IF has_position /\ cs[c].parent_id = new_parent_id
                          /\ cs[c].display_order >= new_position
                       THEN [cs[c] EXCEPT !.display_order = @ + 1]
                       ELSE cs[c]]
        w3 == InvalidateCategory([g2.w EXCEPT !.cats = cs2], up, category_id)
    IN IF ~g1.found THEN Result(g1.w, "not_found", NoCategory)
       ELSE IF ~g2.found THEN Result(g2.w, "validation", NoCategory)
       ELSE IF new_parent_id # Null
               /\ _would_create_circular_reference(cs, category_id, new_parent_id)
            THEN Result(g2.w, "validation", NoCategory)
       ELSE IF ~CommitOk(cs, cs2, category_id) THEN Result(g2.w, "store_error", NoCategory)
       ELSE Result(w3, "ok", Snapshot(cs2, category_id))

move_category(w, up, category_id, new_parent_id, has_position, new_position) ==
    LET g1 == get_category(w, up, category_id)
        g2 == IF new_parent_id # Null
              THEN get_category(g1.w, up, new_parent_id)
              ELSE [w |-> g1.w, val |-> NoCategory, found |-> TRUE]
        cs == g2.w.cats
        row == IF category_id \in DOMAIN cs
               THEN [cs[category_id] EXCEPT
                       !.parent_id = new_parent_id,
                       !.display_order = IF has_position THEN new_position ELSE @]
               ELSE [parent_id |-> Null, product_count |-> 0, is_active |-> FALSE,
                     is_featured |-> FALSE, display_order |-> 0]
        cs2 == [c \in DOMAIN cs |-> IF c = category_id THEN row ELSE cs[c]]
        w3 == InvalidateCategory([g2.w EXCEPT !.cats = cs2], up, category_id)
    IN IF ~g1.found THEN Result(g1.w, "not_found", NoCategory)
       ELSE IF ~g2.found THEN Result(g2.w, "validation", NoCategory)
       ELSE IF new_parent_id # Null
               /\ _would_create_circular_reference(cs, category_id, new_parent_id)
            THEN Result(g2.w, "validation", NoCategory)
       ELSE IF ~CommitOk(cs, cs2, category_id) THEN Result(g2.w, "store_error", NoCategory)
       ELSE Result(w3, "ok", Snapshot(cs2, category_id))

\* delete_category(category_id, force).  category is the object get_category
\* returned: its children collection and product_count are what was loaded
\* (or cached).  With force the Store's children of the row are re-parented
\* by an UPDATE; db.delete(category) then removes the row and, through the
\* children relationship (cascade="all, delete-orphan"), every object of the
\* loaded children collection, and the ON DELETE CASCADE foreign key removes
\* whatever still points at a removed row.  A DELETE that matches no row
\* (the object came from the cache and the row is gone) only warns.
delete_category(w, up, category_id, force) ==
    LET g == get_category(w, up, category_id)
        category == g.val
        cs == g.w.cats
        cs1 == IF force /\ category.children # {}
               THEN [c \in DOMAIN cs |->
                       IF cs[c].parent_id = category_id
                       THEN [cs[c] EXCEPT !.parent_id = category.parent_id]
                       ELSE cs[c]]
               ELSE cs
        cs2 == DeleteRows(cs1, {category_id} \cup category.children)
        w2 == [g.w EXCEPT !.cats = cs2, !.products = DetachProducts(@, cs2)]
        w3 == InvalidateCategory(w2, up, category_id)
    IN IF ~g.found THEN Result(g.w, "not_found", NoCategory)
       ELSE IF category.children # {} /\ ~force THEN Result(g.w, "validation", NoCategory)
       ELSE IF category.product_count > 0 /\ ~force THEN Result(g.w, "validation", NoCategory)
       ELSE IF ~ForeignKeysHold(cs1) THEN Result(g.w, "store_error", NoCategory)
       ELSE Result(w3, "ok", NoCategory)

\* bulk_operation(operation, category_ids): category_ids is a list; a
\* repeated id makes the existence count differ from len(category_ids), so
\* only duplicate-free lists pass and the list is modelled as a set.
RECURSIVE InvalidateAll(_, _, _)
InvalidateAll(cc, up, ids) ==
    IF ids = {} THEN cc
    ELSE LET i == CHOOSE x \in ids : TRUE
         IN InvalidateAll(CacheDeleteEntity(up, cc, i), up, ids \ {i})

\* Mutant: no existence check; the operation is applied to the ids found.
BulkApplyToExisting(w, up, operation, category_ids) ==
    LET cs == w.cats
        hit == category_ids \cap DOMAIN cs
        with_children == {c \in hit : Children(cs, c) # {}}
        cs2 == CASE operation = "activate" ->
                      [c \in DOMAIN cs |-> IF c \in hit THEN [cs[c] EXCEPT !.is_active = TRUE] ELSE cs[c]]
                 [] operation = "deactivate" ->
                      [c \in DOMAIN cs |-> IF c \in hit THEN [cs[c] EXCEPT !.is_active = FALSE] ELSE cs[c]]
                 [] operation = "feature" ->
                      [c \in DOMAIN cs |-> IF c \in hit THEN [cs[c] EXCEPT !.is_featured = TRUE] ELSE cs[c]]
                 [] operation = "unfeature" ->
                      [c \in DOMAIN cs |-> IF c \in hit THEN [cs[c] EXCEPT !.is_featured = FALSE] ELSE cs[c]]
                 [] operation = "delete" -> DeleteRows(cs, hit)
                 [] OTHER -> cs
        w2 == [w EXCEPT !.cats = cs2,
                        !.products = DetachProducts(@, cs2),
                        !.category_cache = InvalidateAll(@, up, category_ids),
                        !.redis = CacheDelete(up, @, "category_tree")]
    IN IF operation = "delete" /\ with_children # {} THEN Result(w, "validation", NoCategory)
       ELSE Result(w2, "ok", NoCategory)

bulk_operation(w, up, operation, category_ids) ==
    LET cs == w.cats
        hit == category_ids \cap DOMAIN cs
        with_children == {c \in hit : Children(cs, c) # {}}
        cs2 == CASE operation = "activate" ->
                      [c \in DOMAIN cs |-> IF c \in hit THEN [cs[c] EXCEPT !.is_active = TRUE] ELSE cs[c]]
                 [] operation = "deactivate" ->
                      [c \in DOMAIN cs |-> IF c \in hit THEN [cs[c] EXCEPT !.is_active = FALSE] ELSE cs[c]]
                 [] operation = "feature" ->
                      [c \in DOMAIN cs |-> IF c \in hit THEN [cs[c] EXCEPT !.is_featured = TRUE] ELSE cs[c]]
                 [] operation = "unfeature" ->
                      [c \in DOMAIN cs |-> IF c \in hit THEN [cs[c] EXCEPT !.is_featured = FALSE] ELSE cs[c]]
                 [] operation = "delete" -> DeleteRows(cs, hit)
                 [] OTHER -> cs
        w2 == [w EXCEPT !.cats = cs2,
                        !.products = DetachProducts(@, cs2),
                        !.category_cache = InvalidateAll(@, up, category_ids),
                        !.redis = CacheDelete(up, @, "category_tree")]
    IN IF Cardinality(hit) # Cardinality(category_ids) THEN Result(w, "validation", NoCategory)
       ELSE IF operation = "delete" /\ with_children # {} THEN Result(w, "validation", NoCategory)
       ELSE Result(w2, "ok", NoCategory)

\* ------------------------------------------------------------ Tree Builder
\* Category.name: the model gives every category a distinct name, ordered
\* against the order of creation.
Name(id) == MaxCats + 1 - id

\* The rows of ids as a list ordered by (display_order, name): the ORDER BY
\* of the query.
RECURSIVE OrderedBy(_, _)
OrderedBy(cs, ids) ==
    IF ids = {} THEN <<>>
    ELSE LET first == CHOOSE x \in ids : \A y \in ids :
                         \/ cs[x].display_order < cs[y].display_order
                         \/ /\ cs[x].display_order = cs[y].display_order
                            /\ Name(x) <= Name(y)
         IN <<first>> \o OrderedBy(cs, ids \ {first})

\* children.sort(key=(display_order if the node has one else 0, name)): a
\* CategoryTree node has no display_order field, so the key is (0, name).
RECURSIVE SortNodes(_)
SortNodes(nodes) ==
    IF nodes = {} THEN <<>>
    ELSE LET first == CHOOSE x \in nodes : \A y \in nodes : Name(x.id) <= Name(y.id)
         IN <<first>> \o SortNodes(nodes \ {first})

\* Category.level: 0 for a root, 1 otherwise (the loop breaks after one hop).
Level(cs, id) == IF cs[id].parent_id = Null THEN 0 ELSE 1

RECURSIVE _build_category_tree_node(_, _, _)
_build_category_tree_node(cs, category_dict, category) ==
    [id |-> category,
     children |-> SortNodes({_build_category_tree_node(cs, category_dict, c) :
                               c \in {k \in category_dict : cs[k].parent_id = category}}),
     product_count |-> cs[category].product_count,
     is_active |-> cs[category].is_active,
     level |-> Level(cs, category)]

BuildTree(cs, active_only) ==
    LET all_categories == {c \in DOMAIN cs : ~active_only \/ cs[c].is_active}
        roots == OrderedBy(cs, {c \in all_categories : cs[c].parent_id = Null})
    IN [i \in 1..Len(roots) |-> _build_category_tree_node(cs, all_categories, roots[i])]

\* get_category_tree(active_only): an empty cached list is falsy and read as
\* a miss.
get_category_tree(w, up, active_only) ==
    LET cache_key == TreeKey(active_only)
        tree == BuildTree(w.cats, active_only)
    IN IF CacheHas(up, w.redis, cache_key) /\ w.redis[cache_key] # <<>>
       THEN Result(w, "ok", w.redis[cache_key])
       ELSE Result([w EXCEPT !.redis = CacheSet(up, @, cache_key, tree)], "ok", tree)

\* ---------------------------------------------------------- ProductService
NoProduct == [categories |-> {}, status |-> "draft", brand_id |-> Null]

\* _update_category_product_counts: one UPDATE over the rows whose id is in
\* category_ids; +1, or greatest(product_count - 1, 0).
\* Mutant: the decrement is product_count - 1, without greatest(..., 0).
UpdateCountsNoFloor(cs, category_ids, increment) ==
    [c \in DOMAIN cs |->
        IF c \in category_ids
        THEN [cs[c] EXCEPT !.product_count = IF increment THEN @ + 1 ELSE @ - 1]
        ELSE cs[c]]

_update_category_product_counts(cs, category_ids, increment) ==
    [c \in DOMAIN cs |->
        IF c \in category_ids
        THEN [cs[c] EXCEPT !.product_count =
                 IF increment THEN @ + 1
                 ELSE IF @ - 1 > 0 THEN @ - 1 ELSE 0]
        ELSE cs[c]]

\* _update_brand_product_count: the same for the one brand row.
_update_brand_product_count(bs, brand_id, increment) ==
    [b \in DOMAIN bs |->
        IF b = brand_id
        THEN IF increment THEN bs[b] + 1
             ELSE IF bs[b] - 1 > 0 THEN bs[b] - 1 ELSE 0
        ELSE bs[b]]

\* get_product(product_id, increment_view=False): cache first, then Store.
get_product(w, up, product_id) ==
    IF CacheHasEntity(up, w.product_cache, product_id)
    THEN [w |-> w, val |-> w.product_cache[product_id], found |-> TRUE]
    ELSE IF product_id \in DOMAIN w.products
         THEN [w |-> [w EXCEPT !.product_cache =
                          CacheSetEntity(up, @, product_id, w.products[product_id])],
               val |-> w.products[product_id],
               found |-> TRUE]
         ELSE [w |-> w, val |-> NoProduct, found |-> FALSE]

\* _validate_categories / _validate_brand read the Store.
ValidTargets(w, category_ids, brand_id) ==
    /\ category_ids \subseteq DOMAIN w.cats
    /\ brand_id = Null \/ brand_id \in DOMAIN w.brands

\* create_product, up to and including the commit of the product row.
CreateProductCommit(w, new_id, data) ==
    [w EXCEPT !.products =
        [p \in DOMAIN @ \cup {new_id} |->
            IF p = new_id
            THEN [categories |-> data.category_ids, status |-> data.status,
                  brand_id |-> data.brand_id]
            ELSE @[p]]]

\* The counter steps that follow the commit of create_product.
CreateProductCounts(w, data) ==
    [w EXCEPT !.cats = _update_category_product_counts(@, data.category_ids, TRUE),
              !.brands = IF data.brand_id # Null
                         THEN _update_brand_product_count(@, data.brand_id, TRUE)
                         ELSE @]

create_product(w, up, new_id, data) ==
    LET w1 == CreateProductCommit(w, new_id, data)
        w2 == CreateProductCounts(w1, data)
        w3 == [w2 EXCEPT !.product_cache =
                  CacheSetEntity(up, @, new_id, w2.products[new_id])]
    IN IF ~ValidTargets(w, data.category_ids, data.brand_id)
       THEN Result(w, "validation", NoProduct)
       ELSE Result(w3, "ok", w2.products[new_id])

\* update_product, up to and including the commit: data carries an is-set
\* flag per field; brand_id can be set only to a brand (None means unset).
UpdateProductCommit(w, product_id, data) ==
    [w EXCEPT !.products[product_id] =
        [categories |-> IF data.has_categories THEN data.category_ids ELSE @.categories,
         status |-> IF data.has_status THEN data.status ELSE @.status,
         brand_id |-> IF data.has_brand THEN data.brand_id ELSE @.brand_id]]

\* The category counter steps of update_product: old_category_ids were read
\* before the update.
\* Mutant: every category of the new list is incremented, not only those
\* added.
UpdateCountsAllNew(w, old_category_ids, data) ==
    IF data.has_categories
    THEN LET removed_categories == old_category_ids \ data.category_ids
             cs1 == IF removed_categories # {}
                    THEN _update_category_product_counts(w.cats, removed_categories, FALSE)
                    ELSE w.cats
             cs2 == _update_category_product_counts(cs1, data.category_ids, TRUE)
         IN [w EXCEPT !.cats = cs2]
    ELSE w

UpdateProductCategoryCounts(w, old_category_ids, data) ==
    IF data.has_categories
    THEN LET removed_categories == old_category_ids \ data.category_ids
             added_categories == data.category_ids \ old_category_ids
             cs1 == IF removed_categories # {}
                    THEN _update_category_product_counts(w.cats, removed_categories, FALSE)
                    ELSE w.cats
             cs2 == IF added_categories # {}
                    THEN _update_category_product_counts(cs1, added_categories, TRUE)
                    ELSE cs1
         IN [w EXCEPT !.cats = cs2]
    ELSE w

\* The brand counter step of update_product: old_brand_id is read from the
\* product object after the new brand_id was assigned and committed.
UpdateProductBrandCount(w, product_id, data) ==
    IF data.has_brand /\ product_id \in DOMAIN w.products
    THEN LET old_brand_id == w.products[product_id].brand_id
             new_brand_id == data.brand_id
             bs1 == IF old_brand_id # new_brand_id /\ old_brand_id # Null
                    THEN _update_brand_product_count(w.brands, old_brand_id, FALSE)
                    ELSE w.brands
             bs2 == IF old_brand_id # new_brand_id /\ new_brand_id # Null
                    THEN _update_brand_product_count(bs1, new_brand_id, TRUE)
                    ELSE bs1
         IN [w EXCEPT !.brands = bs2]
    ELSE w

update_product(w, up, product_id, data) ==
    LET g == get_product(w, up, product_id)
        old_category_ids == g.val.categories
        w1 == UpdateProductCommit(g.w, product_id, data)
        w2 == UpdateProductCategoryCounts(w1, old_category_ids, data)
        w3 == UpdateProductBrandCount(w2, product_id, data)
        w4 == [w3 EXCEPT !.product_cache = CacheDeleteEntity(up, @, product_id)]
    IN IF ~g.found THEN Result(g.w, "not_found", NoProduct)
       ELSE IF ~ValidTargets(g.w, IF data.has_categories THEN data.category_ids ELSE {},
                             IF data.has_brand THEN data.brand_id ELSE Null)
            THEN Result(g.w, "validation", NoProduct)
       ELSE IF product_id \notin DOMAIN g.w.products THEN Result(g.w, "store_error", NoProduct)
       ELSE Result(w4, "ok", w3.products[product_id])

\* delete_product, the commit of the deletion.
DeleteProductCommit(w, product_id) ==
    [w EXCEPT !.products = [p \in DOMAIN @ \ {product_id} |-> @[p]]]

\* The counter steps of delete_product, for the categories and the brand read
\* from the product before it was deleted.
DeleteProductCounts(w, category_ids, brand_id) ==
    [w EXCEPT !.cats = IF category_ids # {}
                       THEN _update_category_product_counts(@, category_ids, FALSE)
                       ELSE @,
              !.brands = IF brand_id # Null
                         THEN _update_brand_product_count(@, brand_id, FALSE)
                         ELSE @]

delete_product(w, up, product_id) ==
    LET g == get_product(w, up, product_id)
        w1 == DeleteProductCommit(g.w, product_id)
        w2 == DeleteProductCounts(w1, g.val.categories, g.val.brand_id)
        w3 == [w2 EXCEPT !.product_cache = CacheDeleteEntity(up, @, product_id)]
    IN IF ~g.found THEN Result(g.w, "not_found", NoProduct)
       ELSE Result(w3, "ok", NoProduct)

\* ProductService.bulk_operation: activate / deactivate / delete over a
\* duplicate-free list of ids; no counter is touched.
product_bulk_operation(w, up, operation, product_ids) ==
    LET ps == w.products
        hit == product_ids \cap DOMAIN ps
        ps2 == CASE operation = "activate" ->
                      [p \in DOMAIN ps |-> IF p \in hit THEN [ps[p] EXCEPT !.status = "active"] ELSE ps[p]]
                 [] operation = "deactivate" ->
                      [p \in DOMAIN ps |-> IF p \in hit THEN [ps[p] EXCEPT !.status = "inactive"] ELSE ps[p]]
                 [] operation = "delete" -> [p \in DOMAIN ps \ hit |-> ps[p]]
                 [] OTHER -> ps
        w2 == [w EXCEPT !.products = ps2,
                        !.product_cache = InvalidateAll(@, up, product_ids)]
    IN IF Cardinality(hit) # Cardinality(product_ids) THEN Result(w, "validation", NoProduct)
       ELSE Result(w2, "ok", NoProduct)

\* ----------------------------------------------------------------- actions
Empty == [x \in {} |-> 0]

CurrentWorld == World(cats, category_cache, redis, products, product_cache, brands)

Idle == [r \in {1, 2} |-> [op |-> "idle"]]

\* A users row as register_user leaves it: active, no failed attempt, no lock.
NoFailures ==
    [is_active |-> TRUE, status |-> "active", failed_login_attempts |-> 0,
     locked_until |-> Null, login_count |-> 0]

InitCommon ==
    /\ category_cache = Empty
    /\ redis = Empty
    /\ products = Empty
    /\ next_prod = 1
    /\ product_cache = Empty
    /\ brands = [b \in BrandIds |-> 0]
    /\ last = [status |-> "ok", val |-> NoCategory, op |-> "init", args |-> [id |-> Null]]
    /\ nc_last = [status |-> "ok", val |-> NoCategory, op |-> "init", args |-> [id |-> Null]]
    /\ pc = Idle
    /\ brand_reviews = [b \in BrandIds |-> [rating |-> Zero, review_count |-> 0]]
    /\ brand_cache = Empty
    /\ views = [c \in CatIds |-> 0]
    /\ stock = [p \in ProdIds |-> 0]
    /\ stock_cache = Empty
    /\ user = NoFailures
    /\ now = 0
    /\ stock_net = [p \in ProdIds |-> 0]

Init ==
    /\ cats = Empty
    /\ nc_cats = Empty
    /\ InitCommon
    /\ next_cat = 1

\* The world after a call becomes the state; the call and its result are
\* recorded in last.
Apply(op, args, r) ==
    /\ cats' = r.w.cats
    /\ category_cache' = r.w.category_cache
    /\ redis' = r.w.redis
    /\ products' = r.w.products
    /\ product_cache' = r.w.product_cache
    /\ brands' = r.w.brands
    /\ last' = [status |-> r.status, val |-> r.val, op |-> op, args |-> args]

CategoryData(parent_id, display_order, is_active, is_featured) ==
    [parent_id |-> parent_id, is_active |-> is_active,
     is_featured |-> is_featured, display_order |-> display_order]

ParentOnly(parent_id) ==
    [parent_id |-> parent_id, is_active |-> FALSE,
     is_featured |-> FALSE, display_order |-> 0,
     has_parent |-> TRUE, has_active |-> FALSE,
     has_featured |-> FALSE, has_order |-> FALSE]

ActiveOnly(is_active) ==
    [parent_id |-> Null, is_active |-> is_active,
     is_featured |-> FALSE, display_order |-> 0,
     has_parent |-> FALSE, has_active |-> TRUE,
     has_featured |-> FALSE, has_order |-> FALSE]

CreateCategory(up, data) ==
    /\ next_cat <= MaxCats
    /\ LET r == create_category(CurrentWorld, up, next_cat, data)
       IN /\ Apply("create_category", [id |-> next_cat, data |-> data], r)
          /\ next_cat' = IF r.status = "ok" THEN next_cat + 1 ELSE next_cat
    /\ UNCHANGED <<next_prod, nc_cats, nc_last, pc,
                   brand_reviews, brand_cache,
                   views, stock, stock_cache, user, now, stock_net>>

GetCategory(up, category_id) ==
    /\ LET g == get_category(CurrentWorld, up, category_id)
       IN Apply("get_category", [id |-> category_id],
                Result(g.w, IF g.found THEN "ok" ELSE "not_found", g.val))
    /\ UNCHANGED <<next_cat, next_prod, nc_cats, nc_last, pc,
                   brand_reviews, brand_cache,
                   views, stock, stock_cache, user, now, stock_net>>

UpdateCategory(up, category_id, data) ==
    /\ Apply("update_category", [id |-> category_id, data |-> data],
             update_category(CurrentWorld, up, category_id, data))
    /\ UNCHANGED <<next_cat, next_prod, nc_cats, nc_last, pc,
                   brand_reviews, brand_cache,
                   views, stock, stock_cache, user, now, stock_net>>

MoveCategory(up, category_id, new_parent_id) ==
    /\ Apply("move_category", [id |-> category_id, new_parent_id |-> new_parent_id],
             move_category(CurrentWorld, up, category_id, new_parent_id, FALSE, 0))
    /\ UNCHANGED <<next_cat, next_prod, nc_cats, nc_last, pc,
                   brand_reviews, brand_cache,
                   views, stock, stock_cache, user, now, stock_net>>

DeleteCategory(up, category_id, force) ==
    /\ Apply("delete_category", [id |-> category_id, force |-> force],
             delete_category(CurrentWorld, up, category_id, force))
    /\ UNCHANGED <<next_cat, next_prod, nc_cats, nc_last, pc,
                   brand_reviews, brand_cache,
                   views, stock, stock_cache, user, now, stock_net>>

BulkOperation(up, operation, category_ids) ==
    /\ Apply("bulk_operation", [ids |-> category_ids, operation |-> operation],
             bulk_operation(CurrentWorld, up, operation, category_ids))
    /\ UNCHANGED <<next_cat, next_prod, nc_cats, nc_last, pc,
                   brand_reviews, brand_cache,
                   views, stock, stock_cache, user, now, stock_net>>

GetCategoryTree(up, active_only) ==
    /\ Apply("get_category_tree", [active_only |-> active_only],
             get_category_tree(CurrentWorld, up, active_only))
    /\ UNCHANGED <<next_cat, next_prod, nc_cats, nc_last, pc,
                   brand_reviews, brand_cache,
                   views, stock, stock_cache, user, now, stock_net>>

\* Ids a request can name: those handed out so far and one that never was.
KnownIds == 1..(IF next_cat <= MaxCats THEN next_cat ELSE MaxCats)

NonEmptySubsets(S) == SUBSET S \ {{}}

\* Category hierarchy, one request at a time, working cache.
Next ==
    \/ \E p \in {Null} \cup KnownIds : CreateCategory(TRUE, CategoryData(p, 0, TRUE, FALSE))
    \/ \E c \in KnownIds : GetCategory(TRUE, c)
    \/ \E c \in KnownIds, p \in {Null} \cup KnownIds : UpdateCategory(TRUE, c, ParentOnly(p))
    \/ \E c \in KnownIds, p \in {Null} \cup KnownIds : MoveCategory(TRUE, c, p)
    \/ \E c \in KnownIds, force \in BOOLEAN : DeleteCategory(TRUE, c, force)
    \/ \E ids \in NonEmptySubsets(KnownIds) : BulkOperation(TRUE, "delete", ids)

Spec == Init /\ [][Next]_vars

\* Tree reads between the mutations that change the tree, on a Store of at
\* most MaxTreeCats categories.
KnownTreeIds == 1..(IF next_cat <= MaxTreeCats THEN next_cat ELSE MaxTreeCats)

NextTree ==
    \/ /\ next_cat <= MaxTreeCats
       /\ \E p \in {Null} \cup KnownTreeIds, a \in BOOLEAN :
             CreateCategory(TRUE, CategoryData(p, 0, a, FALSE))
    \/ \E c \in KnownTreeIds, p \in {Null} \cup KnownTreeIds : MoveCategory(TRUE, c, p)
    \/ \E c \in KnownTreeIds, a \in BOOLEAN : UpdateCategory(TRUE, c, ActiveOnly(a))
    \/ \E c \in KnownTreeIds, force \in BOOLEAN : DeleteCategory(TRUE, c, force)
    \/ \E ids \in NonEmptySubsets(KnownTreeIds), o \in {"activate", "deactivate"} :
          BulkOperation(TRUE, o, ids)
    \/ \E a \in BOOLEAN : GetCategoryTree(TRUE, a)

SpecTree == Init /\ [][NextTree]_vars

\* The same service constructed without a cache (cache_service = None).
NextNoCache ==
    \/ \E p \in {Null} \cup KnownIds : CreateCategory(FALSE, CategoryData(p, 0, TRUE, FALSE))
    \/ \E c \in KnownIds : GetCategory(FALSE, c)
    \/ \E c \in KnownIds, p \in {Null} \cup KnownIds : UpdateCategory(FALSE, c, ParentOnly(p))
    \/ \E c \in KnownIds, p \in {Null} \cup KnownIds : MoveCategory(FALSE, c, p)
    \/ \E c \in KnownIds, force \in BOOLEAN : DeleteCategory(FALSE, c, force)
    \/ \E ids \in NonEmptySubsets(KnownIds) : BulkOperation(FALSE, "delete", ids)

SpecNoCache == Init /\ [][NextNoCache]_vars

\* ---------------------------------------------------------- product actions
ProductData(category_ids, brand_id, status) ==
    [status |-> status, category_ids |-> category_ids, brand_id |-> brand_id]

ProductUpdate(has_categories, category_ids, has_brand, brand_id) ==
    [status |-> "draft", category_ids |-> category_ids,
     brand_id |-> brand_id, has_categories |-> has_categories,
     has_status |-> FALSE, has_brand |-> has_brand]

CreateProduct(up, data) ==
    /\ next_prod <= MaxProds
    /\ LET r == create_product(CurrentWorld, up, next_prod, data)
       IN /\ Apply("create_product", [id |-> next_prod, data |-> data], r)
          /\ next_prod' = IF r.status = "ok" THEN next_prod + 1 ELSE next_prod
    /\ UNCHANGED <<next_cat, nc_cats, nc_last, pc,
                   brand_reviews, brand_cache,
                   views, stock, stock_cache, user, now, stock_net>>

UpdateProduct(up, product_id, data) ==
    /\ Apply("update_product", [id |-> product_id, data |-> data],
             update_product(CurrentWorld, up, product_id, data))
    /\ UNCHANGED <<next_cat, next_prod, nc_cats, nc_last, pc,
                   brand_reviews, brand_cache,
                   views, stock, stock_cache, user, now, stock_net>>

DeleteProduct(up, product_id) ==
    /\ Apply("delete_product", [id |-> product_id],
             delete_product(CurrentWorld, up, product_id))
    /\ UNCHANGED <<next_cat, next_prod, nc_cats, nc_last, pc,
                   brand_reviews, brand_cache,
                   views, stock, stock_cache, user, now, stock_net>>

ProductBulkOperation(up, operation, product_ids) ==
    /\ Apply("product_bulk_operation", [ids |-> product_ids, operation |-> operation],
             product_bulk_operation(CurrentWorld, up, operation, product_ids))
    /\ UNCHANGED <<next_cat, next_prod, nc_cats, nc_last, pc,
                   brand_reviews, brand_cache,
                   views, stock, stock_cache, user, now, stock_net>>

\* The product service over a Store that already holds two root categories
\* and two brands.
TwoRoots ==
    [c \in {1, 2} |-> [parent_id |-> Null, product_count |-> 0, is_active |-> TRUE,
                       is_featured |-> FALSE, display_order |-> 0]]

InitProd ==
    /\ cats = TwoRoots
    /\ nc_cats = Empty
    /\ InitCommon
    /\ next_cat = 3

KnownProds == 1..(IF next_prod <= MaxProds THEN next_prod ELSE MaxProds)

CategoryChoices == NonEmptySubsets({1, 2}) \cup {{3}}

NextProd ==
    \/ \E ids \in CategoryChoices, b \in {Null} \cup BrandIds, st \in {"draft", "active"} :
          CreateProduct(TRUE, ProductData(ids, b, st))
    \/ \E p \in KnownProds, ids \in CategoryChoices :
          UpdateProduct(TRUE, p, ProductUpdate(TRUE, ids, FALSE, Null))
    \/ \E p \in KnownProds, b \in BrandIds :
          UpdateProduct(TRUE, p, ProductUpdate(FALSE, {}, TRUE, b))
    \/ \E p \in KnownProds : DeleteProduct(TRUE, p)
    \/ \E ids \in NonEmptySubsets(KnownProds), o \in {"activate", "deactivate", "delete"} :
          ProductBulkOperation(TRUE, o, ids)

SpecProd == InitProd /\ [][NextProd]_vars

\* ------------------------------------------------------ concurrent requests
\* Two product requests in flight.  A request suspends at every awaited
\* Store call: after reading the product, after the commit of its own
\* change, and after each counter UPDATE (each is one statement followed by
\* its commit).
Requests == {1, 2}

Flight(op, stage, product_id, data, old_categories, old_brand, todo) ==
    [data |-> data, product_id |-> product_id, op |-> op, stage |-> stage,
     old_categories |-> old_categories, old_brand |-> old_brand, todo |-> todo]

CategoryTask(ids, increment) ==
    [ids |-> ids, brand_id |-> Null, increment |-> increment, kind |-> "category"]

BrandTask(brand_id, increment) ==
    [ids |-> {}, brand_id |-> brand_id, increment |-> increment, kind |-> "brand"]

\* The counter calls a handler makes after its commit, in program order.
CreateTodo(data) ==
    <<CategoryTask(data.category_ids, TRUE)>>
    \o (IF data.brand_id # Null THEN <<BrandTask(data.brand_id, TRUE)>> ELSE <<>>)

DeleteTodo(category_ids, brand_id) ==
    (IF category_ids # {} THEN <<CategoryTask(category_ids, FALSE)>> ELSE <<>>)
    \o (IF brand_id # Null THEN <<BrandTask(brand_id, FALSE)>> ELSE <<>>)

UpdateTodo(old_category_ids, old_brand_id, data) ==
    (IF data.has_categories /\ old_category_ids \ data.category_ids # {}
     THEN <<CategoryTask(old_category_ids \ data.category_ids, FALSE)>> ELSE <<>>)
    \o (IF data.has_categories /\ data.category_ids \ old_category_ids # {}
        THEN <<CategoryTask(data.category_ids \ old_category_ids, TRUE)>> ELSE <<>>)
    \o (IF data.has_brand /\ old_brand_id # data.brand_id /\ old_brand_id # Null
        THEN <<BrandTask(old_brand_id, FALSE)>> ELSE <<>>)
    \o (IF data.has_brand /\ old_brand_id # data.brand_id /\ data.brand_id # Null
        THEN <<BrandTask(data.brand_id, TRUE)>> ELSE <<>>)

CountersBelowCap ==
    /\ \A c \in DOMAIN cats : cats[c].product_count < MaxCount
    /\ \A b \in DOMAIN brands : brands[b] < MaxCount

\* create_product up to its commit.
StartCreate(r, data) ==
    /\ pc[r].op = "idle"
    /\ next_prod <= MaxConcProds
    /\ CountersBelowCap
    /\ ValidTargets(CurrentWorld, data.category_ids, data.brand_id)
    /\ products' = CreateProductCommit(CurrentWorld, next_prod, data).products
    /\ next_prod' = next_prod + 1
    /\ pc' = [pc EXCEPT ![r] = Flight("create_product", "committed", next_prod, data,
                                      {}, Null, CreateTodo(data))]
    /\ UNCHANGED <<cats, next_cat, category_cache, redis, product_cache, brands,
                   last, nc_cats, nc_last,
                   brand_reviews, brand_cache,
                   views, stock, stock_cache, user, now, stock_net>>

\* update_product / delete_product: the get_product at their start.
StartRead(r, op, product_id, data) ==
    /\ pc[r].op = "idle"
    /\ CountersBelowCap
    /\ LET g == get_product(CurrentWorld, TRUE, product_id)
       IN /\ g.found
          /\ product_cache' = g.w.product_cache
          /\ pc' = [pc EXCEPT ![r] = Flight(op, "read", product_id, data,
                                            g.val.categories, g.val.brand_id, <<>>)]
    /\ UNCHANGED <<cats, next_cat, category_cache, redis, products, next_prod, brands,
                   last, nc_cats, nc_last,
                   brand_reviews, brand_cache,
                   views, stock, stock_cache, user, now, stock_net>>

\* Mutant: the error of an UPDATE that matches no row is swallowed and the
\* handler goes on to its counter and cache steps.
CommitSwallowsError(r) ==
    /\ pc[r].op \in {"update_product", "delete_product"}
    /\ pc[r].stage = "read"
    /\ LET f == pc[r]
       IN IF f.op = "delete_product"
          THEN /\ products' = DeleteProductCommit(CurrentWorld, f.product_id).products
               /\ pc' = [pc EXCEPT ![r] = [f EXCEPT !.stage = "committed",
                                              !.todo = DeleteTodo(f.old_categories, f.old_brand)]]
          ELSE IF f.product_id \in DOMAIN products
          THEN /\ products' = UpdateProductCommit(CurrentWorld, f.product_id, f.data).products
               /\ pc' = [pc EXCEPT ![r] = [f EXCEPT !.stage = "committed",
                            !.todo = UpdateTodo(f.old_categories,
                                                products'[f.product_id].brand_id, f.data)]]
          ELSE /\ products' = products
               /\ pc' = [pc EXCEPT ![r] = [f EXCEPT !.stage = "committed",
                            !.todo = UpdateTodo(f.old_categories, f.old_brand, f.data)]]
    /\ UNCHANGED <<cats, next_cat, category_cache, redis, next_prod, product_cache,
                   brands, last, nc_cats, nc_last,
                   brand_reviews, brand_cache,
                   views, stock, stock_cache, user, now, stock_net>>

\* The commit of the request's own change.  An UPDATE of a row that is gone
\* raises and ends the request; a DELETE of a row that is gone only warns.
Commit(r) ==
    /\ pc[r].op \in {"update_product", "delete_product"}
    /\ pc[r].stage = "read"
    /\ LET f == pc[r]
       IN IF f.op = "delete_product"
          THEN /\ products' = DeleteProductCommit(CurrentWorld, f.product_id).products
               /\ pc' = [pc EXCEPT ![r] = [f EXCEPT !.stage = "committed",
                                              !.todo = DeleteTodo(f.old_categories, f.old_brand)]]
          ELSE IF f.product_id \in DOMAIN products
          THEN /\ products' = UpdateProductCommit(CurrentWorld, f.product_id, f.data).products
               /\ pc' = [pc EXCEPT ![r] = [f EXCEPT !.stage = "committed",
                            !.todo = UpdateTodo(f.old_categories,
                                                products'[f.product_id].brand_id, f.data)]]
          ELSE /\ products' = products
               /\ pc' = [pc EXCEPT ![r] = [op |-> "idle"]]
    /\ UNCHANGED <<cats, next_cat, category_cache, redis, next_prod, product_cache,
                   brands, last, nc_cats, nc_last,
                   brand_reviews, brand_cache,
                   views, stock, stock_cache, user, now, stock_net>>

\* One counter UPDATE and its commit.
CounterStep(r) ==
    /\ pc[r].op # "idle"
    /\ pc[r].stage = "committed"
    /\ pc[r].todo # <<>>
    /\ LET task == Head(pc[r].todo)
       IN /\ cats' = IF task.kind = "category"
                     THEN _update_category_product_counts(cats, task.ids, task.increment)
                     ELSE cats
          /\ brands' = IF task.kind = "brand"
                       THEN _update_brand_product_count(brands, task.brand_id, task.increment)
                       ELSE brands
    /\ pc' = [pc EXCEPT ![r].todo = Tail(@)]
    /\ UNCHANGED <<next_cat, category_cache, redis, products, next_prod, product_cache,
                   last, nc_cats, nc_last,
                   brand_reviews, brand_cache,
                   views, stock, stock_cache, user, now, stock_net>>

\* The cache call at the end of the handler, and its return.
Finish(r) ==
    /\ pc[r].op # "idle"
    /\ pc[r].stage = "committed"
    /\ pc[r].todo = <<>>
    /\ product_cache' =
          IF pc[r].op = "create_product" /\ pc[r].product_id \in DOMAIN products
          THEN CacheSetEntity(TRUE, product_cache, pc[r].product_id, products[pc[r].product_id])
          ELSE CacheDeleteEntity(TRUE, product_cache, pc[r].product_id)
    /\ last' = [status |-> "ok", val |-> NoProduct, op |-> pc[r].op,
                args |-> [id |-> pc[r].product_id]]
    /\ pc' = [pc EXCEPT ![r] = [op |-> "idle"]]
    /\ UNCHANGED <<cats, next_cat, category_cache, redis, products, next_prod, brands,
                   nc_cats, nc_last,
                   brand_reviews, brand_cache,
                   views, stock, stock_cache, user, now, stock_net>>

NextConc ==
    \E r \in Requests :
        \/ \E ids \in NonEmptySubsets({1, 2}), b \in {Null, 1} :
              StartCreate(r, ProductData(ids, b, "active"))
        \/ \E p \in KnownProds, ids \in NonEmptySubsets({1, 2}) :
              StartRead(r, "update_product", p, ProductUpdate(TRUE, ids, FALSE, Null))
        \/ \E p \in KnownProds :
              StartRead(r, "update_product", p, ProductUpdate(FALSE, {}, TRUE, 2))
        \/ \E p \in KnownProds :
              StartRead(r, "delete_product", p, ProductUpdate(FALSE, {}, FALSE, Null))
        \/ Commit(r)
        \/ CounterStep(r)
        \/ Finish(r)

SpecConc == InitProd /\ [][NextConc]_vars

\* ------------------------------------------------- with and without a cache
\* The same sequence of category requests served twice: by a service with a
\* working cache (cats, category_cache, redis, last) and by a service whose
\* cache misses on every get and fails on every set and delete (nc_cats,
\* nc_last).  Both start from the same empty Store.
NoCacheWorld == World(nc_cats, Empty, Empty, Empty, Empty, brands)

TwinApply(op, args, r, nr) ==
    /\ Apply(op, args, r)
    /\ nc_cats' = nr.w.cats
    /\ nc_last' = [status |-> nr.status, val |-> nr.val, op |-> op, args |-> args]

TwinCreateCategory(data) ==
    /\ next_cat <= MaxTreeCats
    /\ LET r == create_category(CurrentWorld, TRUE, next_cat, data)
           nr == create_category(NoCacheWorld, FALSE, next_cat, data)
       IN /\ TwinApply("create_category", [id |-> next_cat, data |-> data], r, nr)
          /\ next_cat' = IF r.status = "ok" \/ nr.status = "ok"
                         THEN next_cat + 1 ELSE next_cat
    /\ UNCHANGED <<next_prod, pc,
                   brand_reviews, brand_cache,
                   views, stock, stock_cache, user, now, stock_net>>

TwinGetCategory(category_id) ==
    /\ LET g == get_category(CurrentWorld, TRUE, category_id)
           ng == get_category(NoCacheWorld, FALSE, category_id)
       IN TwinApply("get_category", [id |-> category_id],
                    Result(g.w, IF g.found THEN "ok" ELSE "not_found", g.val),
                    Result(ng.w, IF ng.found THEN "ok" ELSE "not_found", ng.val))
    /\ UNCHANGED <<next_cat, next_prod, pc,
                   brand_reviews, brand_cache,
                   views, stock, stock_cache, user, now, stock_net>>

TwinMoveCategory(category_id, new_parent_id) ==
    /\ TwinApply("move_category", [id |-> category_id, new_parent_id |-> new_parent_id],
                 move_category(CurrentWorld, TRUE, category_id, new_parent_id, FALSE, 0),
                 move_category(NoCacheWorld, FALSE, category_id, new_parent_id, FALSE, 0))
    /\ UNCHANGED <<next_cat, next_prod, pc,
                   brand_reviews, brand_cache,
                   views, stock, stock_cache, user, now, stock_net>>

TwinDeleteCategory(category_id, force) ==
    /\ TwinApply("delete_category", [id |-> category_id, force |-> force],
                 delete_category(CurrentWorld, TRUE, category_id, force),
                 delete_category(NoCacheWorld, FALSE, category_id, force))
    /\ UNCHANGED <<next_cat, next_prod, pc,
                   brand_reviews, brand_cache,
                   views, stock, stock_cache, user, now, stock_net>>

TwinGetCategoryTree(active_only) ==
    /\ TwinApply("get_category_tree", [active_only |-> active_only],
                 get_category_tree(CurrentWorld, TRUE, active_only),
                 get_category_tree(NoCacheWorld, FALSE, active_only))
    /\ UNCHANGED <<next_cat, next_prod, pc,
                   brand_reviews, brand_cache,
                   views, stock, stock_cache, user, now, stock_net>>

NextTwin ==
    \/ \E p \in {Null} \cup KnownTreeIds : TwinCreateCategory(CategoryData(p, 0, TRUE, FALSE))
    \/ \E c \in KnownTreeIds : TwinGetCategory(c)
    \/ \E c \in KnownTreeIds, p \in {Null} \cup KnownTreeIds : TwinMoveCategory(c, p)
    \/ \E c \in KnownTreeIds, force \in BOOLEAN : TwinDeleteCategory(c, force)
    \/ \E a \in BOOLEAN : TwinGetCategoryTree(a)

SpecTwin == Init /\ [][NextTwin]_vars

\* --------------------------------------------------------------- hierarchy
\* The categories below a: children, their children, and so on.
RECURSIVE Below(_, _)
Below(cs, S) ==
    LET more == {c \in DOMAIN cs : cs[c].parent_id \in S} \ S
    IN IF more = {} THEN S ELSE Below(cs, S \cup more)

DescendantsOf(cs, a) == Below(cs, {a}) \ {a}

\* Following parent_id from id reaches a null parent within hops steps.
RECURSIVE ReachesRoot(_, _, _)
ReachesRoot(cs, id, hops) ==
    IF id = Null THEN TRUE
    ELSE IF hops = 0 \/ id \notin DOMAIN cs THEN FALSE
    ELSE ReachesRoot(cs, cs[id].parent_id, hops - 1)

\* C1: after any sequence of create, move, update (parent) and delete calls,
\* following parent_id from every stored category reaches a null parent in
\* finitely many steps: the parent graph has no cycle.
C1_NoCycle == \A c \in DOMAIN cats : ReachesRoot(cats, c, Cardinality(DOMAIN cats))

\* A move or re-parenting update succeeded and left a chain of three levels.
C1_Witness ==
    /\ last.op \in {"move_category", "update_category"}
    /\ last.status = "ok"
    /\ \E c \in DOMAIN cats :
          /\ cats[c].parent_id # Null
          /\ cats[c].parent_id \in DOMAIN cats
          /\ cats[cats[c].parent_id].parent_id # Null

\* C2: for existing categories A and B, move_category(A, new_parent_id = B)
\* is rejected with a validation error exactly when B = A or B is a
\* descendant of A; otherwise it succeeds and A's parent_id is B afterwards.
C2_MoveRejection ==
    [][\A a \in DOMAIN cats, b \in DOMAIN cats :
          MoveCategory(TRUE, a, b) =>
             IF b = a \/ b \in DescendantsOf(cats, a)
             THEN last'.status = "validation"
             ELSE last'.status = "ok" /\ cats'[a].parent_id = b]_vars

\* A move under a grandchild was rejected.
C2_Witness ==
    /\ last.op = "move_category"
    /\ last.status = "validation"
    /\ last.args.id \in DOMAIN cats
    /\ last.args.new_parent_id \in DOMAIN cats
    /\ cats[last.args.new_parent_id].parent_id \notin {Null, last.args.id}

\* C3: after any successful create, update, move, delete or bulk operation
\* neither tree-cache variant holds an entry computed before it, so the next
\* get_category_tree returns the tree built from the current Store.
C3_TreeReadCurrent ==
    last.op = "get_category_tree" => last.val = BuildTree(cats, last.args.active_only)

\* C4: delete_category(id, force=False) is rejected and the category stays
\* in the Store whenever the Store holds a child of id or a product_count
\* above 0 for id.
C4_DefaultDeleteGuard ==
    [][\A c \in DOMAIN cats :
          (DeleteCategory(TRUE, c, FALSE)
             /\ (Children(cats, c) # {} \/ cats[c].product_count > 0))
          => (last'.status = "validation" /\ c \in DOMAIN cats')]_vars

\* C5: delete_category(N, force=True) removes only N; every direct child of
\* N still exists with parent_id = N's former parent_id, and every other
\* category still exists with its parent_id unchanged.
C5_ForceDeleteSplice ==
    [][\A n \in DOMAIN cats :
          (DeleteCategory(FALSE, n, TRUE) /\ last'.status = "ok")
          => /\ DOMAIN cats' = DOMAIN cats \ {n}
             /\ \A c \in DOMAIN cats \ {n} :
                   c \in DOMAIN cats'
                   /\ cats'[c].parent_id =
                        IF cats[c].parent_id = n THEN cats[n].parent_id
                        ELSE cats[c].parent_id]_vars

\* ------------------------------------------------------------------ counters
Floor0(n) == IF n > 0 THEN n ELSE 0

ActiveAttached(c) ==
    {p \in DOMAIN products : c \in products[p].categories /\ products[p].status = "active"}

\* C6: under any interleaving of create_product, delete_product and
\* update_product requests, every category's and every brand's
\* product_count is >= 0 in every reachable state.
C6_CountersNonNegative ==
    /\ \A c \in DOMAIN cats : cats[c].product_count >= 0
    /\ \A b \in DOMAIN brands : brands[b] >= 0

\* Two delete_product requests for the same product both read it, both
\* committed and both ran their decrement of category 1, which is at 0.
C6_Witness ==
    /\ \A r \in Requests :
          /\ pc[r].op = "delete_product"
          /\ pc[r].stage = "committed"
          /\ pc[r].todo = <<>>
          /\ 1 \in pc[r].old_categories
    /\ pc[1].product_id = pc[2].product_id
    /\ cats[1].product_count = 0

\* C7: a successful create_product adds 1 to the product_count of each
\* category in category_ids; a successful delete_product subtracts 1 (floor
\* 0) from each category the product was attached to; a successful
\* update_product with category_ids subtracts 1 from exactly the categories
\* removed and adds 1 to exactly those added; every other category's
\* product_count is unchanged.
C7_CategoryCounterDelta ==
    [][\A c \in DOMAIN cats :
          /\ (last'.op = "create_product" /\ last'.status = "ok")
                => /\ c \in DOMAIN cats'
                   /\ cats'[c].product_count =
                        IF c \in last'.args.data.category_ids
                        THEN cats[c].product_count + 1
                        ELSE cats[c].product_count
          /\ (last'.op = "delete_product" /\ last'.status = "ok"
                 /\ last'.args.id \in DOMAIN products)
                => /\ c \in DOMAIN cats'
                   /\ cats'[c].product_count =
                        IF c \in products[last'.args.id].categories
                        THEN Floor0(cats[c].product_count - 1)
                        ELSE cats[c].product_count
          /\ (last'.op = "update_product" /\ last'.status = "ok"
                 /\ last'.args.data.has_categories
                 /\ last'.args.id \in DOMAIN products)
                => /\ c \in DOMAIN cats'
                   /\ cats'[c].product_count =
                        IF c \in products[last'.args.id].categories
                                    \ last'.args.data.category_ids
                        THEN cats[c].product_count - 1
                        ELSE IF c \in last'.args.data.category_ids
                                        \ products[last'.args.id].categories
                        THEN cats[c].product_count + 1
                        ELSE cats[c].product_count]_vars

\* An update_product moved the only product from one category to the other:
\* the category it left is back at 0, the one it joined is at 1.
C7_Witness ==
    /\ last.op = "update_product"
    /\ last.status = "ok"
    /\ last.args.data.has_categories
    /\ last.args.data.category_ids = {2}
    /\ DOMAIN products = {1}
    /\ next_prod = 2
    /\ products[1].categories = {2}
    /\ cats[1].product_count = 0
    /\ cats[2].product_count = 1

\* C8: when update_product changes a product's brand from X to a different
\* brand Y, X's product_count goes down by 1 (floor 0) and Y's goes up by 1;
\* when the brand is unchanged no brand's count changes.
C8_BrandCounterOnReassignment ==
    [][(last'.op = "update_product" /\ last'.status = "ok"
          /\ last'.args.data.has_brand
          /\ last'.args.id \in DOMAIN products)
       => LET x == products[last'.args.id].brand_id
              y == last'.args.data.brand_id
          IN IF x = y THEN brands' = brands
             ELSE x # Null => /\ brands'[x] = Floor0(brands[x] - 1)
                              /\ brands'[y] = brands[y] + 1]_vars

\* C9: when no request is in flight, every category's product_count equals
\* the number of active products attached to it in the Store.
C9_CounterAccuracy ==
    \A c \in DOMAIN cats : cats[c].product_count = Cardinality(ActiveAttached(c))

\* ------------------------------------------------------- cache transparency
\* What a caller sees of a returned category: its columns, not the
\* children collection.
Visible(l) ==
    IF l.op \in {"create_category", "get_category", "move_category"} /\ l.status = "ok"
    THEN [l.val EXCEPT !.children = {}]
    ELSE l.val

\* C10: the same sequence of category requests gives, with a working cache
\* and with a cache that always misses and fails, the same accept/reject
\* decision, the same returned result and the same Store.
C10_CacheMissTransparent ==
    /\ last.status = nc_last.status
    /\ Visible(last) = Visible(nc_last)
    /\ cats = nc_cats

\* --------------------------------------------------------- cache coherence
\* C11: after any mutation has returned, every entry of the category entity
\* cache belongs to a category of the Store and agrees with the Store on
\* parent_id, child list, is_active, is_featured and product_count.
C11_EntityCacheCoherent ==
    \A id \in DOMAIN category_cache :
        /\ id \in DOMAIN cats
        /\ category_cache[id].parent_id = cats[id].parent_id
        /\ category_cache[id].children = Children(cats, id)
        /\ category_cache[id].is_active = cats[id].is_active
        /\ category_cache[id].is_featured = cats[id].is_featured
        /\ category_cache[id].product_count = cats[id].product_count

\* ------------------------------------------------------------- tree shape
\* The ids of a forest, parents before children, in the order of the lists.
RECURSIVE FlattenForest(_)
FlattenForest(forest) ==
    IF forest = <<>> THEN <<>>
    ELSE <<Head(forest).id>> \o FlattenForest(Head(forest).children)
                             \o FlattenForest(Tail(forest))

Selected(cs, active_only) == {c \in DOMAIN cs : ~active_only \/ cs[c].is_active}

\* C12: for both values of active_only the forest get_category_tree builds
\* from the Store, flattened, holds exactly the ids of the categories the
\* filter selects, each exactly once; an active category under an inactive
\* parent is among them when active_only is true.
C12_TreeComplete ==
    \A active_only \in BOOLEAN :
        LET ids == FlattenForest(BuildTree(cats, active_only))
        IN /\ {ids[i] : i \in 1..Len(ids)} = Selected(cats, active_only)
           /\ Len(ids) = Cardinality(Selected(cats, active_only))

\* Tree reads over categories that differ in display_order, served without a
\* cache so that every read is built from the Store.
OrderOnly(display_order) ==
    [parent_id |-> Null, is_active |-> FALSE,
     is_featured |-> FALSE, display_order |-> display_order,
     has_parent |-> FALSE, has_active |-> FALSE,
     has_featured |-> FALSE, has_order |-> TRUE]

NextOrder ==
    \/ \E p \in {Null} \cup KnownIds, d \in {0, 1} :
          CreateCategory(FALSE, CategoryData(p, d, TRUE, FALSE))
    \/ \E c \in KnownIds, d \in {0, 1} : UpdateCategory(FALSE, c, OrderOnly(d))
    \/ \E c \in KnownIds, p \in {Null} \cup KnownIds : MoveCategory(FALSE, c, p)
    \/ GetCategoryTree(FALSE, FALSE)

SpecOrder == Init /\ [][NextOrder]_vars

\* a comes before b in (display_order, name) order.
Precedes(cs, a, b) ==
    \/ cs[a].display_order < cs[b].display_order
    \/ cs[a].display_order = cs[b].display_order /\ Name(a) <= Name(b)

RECURSIVE SortedForest(_, _)
SortedForest(cs, forest) ==
    /\ \A i, j \in 1..Len(forest) :
          i < j => Precedes(cs, forest[i].id, forest[j].id)
    /\ \A i \in 1..Len(forest) : SortedForest(cs, forest[i].children)

\* C13: in the forest get_category_tree returns, the roots and the children
\* of every node are in ascending (display_order, name) order.
C13_SiblingsSorted ==
    last.op = "get_category_tree" => SortedForest(cats, last.val)

\* -------------------------------------------------------------- breadcrumbs
\* get_category_breadcrumbs(category_id), one loop iteration per step, on a
\* service without a cache.  The Store it starts from is any content of the
\* categories table the schema admits: every parent_id is null or the id of
\* a row, chains of parents may close into a cycle.
MaxWalk == 5
MaxDepth == MaxCats

AnyStore ==
    {[c \in 1..MaxCats |-> [parent_id |-> f[c], product_count |-> 0, is_active |-> TRUE,
                            is_featured |-> FALSE, display_order |-> 0]] :
        f \in [1..MaxCats -> {Null} \cup (1..MaxCats)]}

InitCrumbs ==
    /\ cats \in AnyStore
    /\ nc_cats = Empty
    /\ InitCommon
    /\ next_cat = MaxCats + 1

\* category = await self.get_category(category_id); if not category: return []
BeginCrumbs(category_id) ==
    /\ pc[1].op = "idle"
    /\ LET g == get_category(CurrentWorld, FALSE, category_id)
       IN IF g.found
          THEN /\ pc' = [pc EXCEPT ![1] = [op |-> "get_category_breadcrumbs",
                                          current |-> category_id, breadcrumbs |-> <<>>]]
               /\ last' = last
          ELSE /\ pc' = pc
               /\ last' = [status |-> "ok", val |-> <<>>,
                           op |-> "get_category_breadcrumbs", args |-> [id |-> category_id]]
    /\ UNCHANGED <<cats, next_cat, category_cache, redis, products, next_prod,
                   product_cache, brands, nc_cats, nc_last,
                   brand_reviews, brand_cache,
                   views, stock, stock_cache, user, now, stock_net>>

\* One iteration of "while current": insert current at the front, then
\* current = get_category(current.parent_id), or None at a root.
CrumbStep ==
    /\ pc[1].op = "get_category_breadcrumbs"
    /\ pc[1].current # Null
    /\ Len(pc[1].breadcrumbs) < MaxWalk
    /\ LET current == pc[1].current
           parent_id == cats[current].parent_id
           g == get_category(CurrentWorld, FALSE, parent_id)
       IN pc' = [pc EXCEPT ![1].breadcrumbs = <<current>> \o @,
                           ![1].current = IF parent_id # Null /\ g.found
                                          THEN parent_id ELSE Null]
    /\ UNCHANGED <<cats, next_cat, category_cache, redis, products, next_prod,
                   product_cache, brands, last, nc_cats, nc_last,
                   brand_reviews, brand_cache,
                   views, stock, stock_cache, user, now, stock_net>>

\* return breadcrumbs
CrumbReturn ==
    /\ pc[1].op = "get_category_breadcrumbs"
    /\ pc[1].current = Null
    /\ last' = [status |-> "ok", val |-> pc[1].breadcrumbs,
                op |-> "get_category_breadcrumbs", args |-> [id |-> Head(pc[1].breadcrumbs)]]
    /\ pc' = [pc EXCEPT ![1] = [op |-> "idle"]]
    /\ UNCHANGED <<cats, next_cat, category_cache, redis, products, next_prod,
                   product_cache, brands, nc_cats, nc_last,
                   brand_reviews, brand_cache,
                   views, stock, stock_cache, user, now, stock_net>>

NextCrumbs ==
    \/ \E c \in 1..(MaxCats + 1) : BeginCrumbs(c)
    \/ CrumbStep
    \/ CrumbReturn

SpecCrumbs == InitCrumbs /\ [][NextCrumbs]_vars

\* C14: get_category_breadcrumbs stops after a fixed maximum number of hops
\* on every Store content, a Store with a cycle of parents included: the
\* walk never collects more than MaxDepth categories.
C14_BreadcrumbWalkBounded ==
    pc[1].op = "get_category_breadcrumbs" => Len(pc[1].breadcrumbs) <= MaxDepth

\* ------------------------------------------------------------ BrandService
MaxReviews == 3
MaxTotal == 10

FMulInt(f, k) == Frac(f.num * k, f.den)

FAdd(f, g) == Frac(f.num * g.den + g.num * f.den, f.den * g.den)

FDivInt(f, k) == Frac(f.num, f.den * k)

BrandWorld(rows, cache) == [rows |-> rows, cache |-> cache]

NoBrand == [rating |-> Zero, review_count |-> 0]

\* get_brand(brand_id): cache first, then the Store; a Store hit is cached.
get_brand(bw, up, brand_id) ==
    IF CacheHasEntity(up, bw.cache, brand_id)
    THEN [val |-> bw.cache[brand_id], found |-> TRUE, bw |-> bw]
    ELSE IF brand_id \in DOMAIN bw.rows
         THEN [val |-> bw.rows[brand_id],
               found |-> TRUE,
               bw |-> [bw EXCEPT !.cache = CacheSetEntity(up, @, brand_id, bw.rows[brand_id])]]
         ELSE [val |-> NoBrand, found |-> FALSE, bw |-> bw]

\* Mutant: the running total is rebuilt with the new review count.
UpdateRatingNewCount(bw, up, brand_id, new_rating, review_count_delta) ==
    LET g == get_brand(bw, up, brand_id)
        BrandModel == g.val
        new_review_count == BrandModel.review_count + review_count_delta
        current_total == FMulInt(BrandModel.rating, new_review_count)
        new_total == FAdd(current_total, new_rating)
        new_avg_rating == IF new_review_count > 0
                          THEN FDivInt(new_total, new_review_count) ELSE Zero
    IN IF ~g.found THEN g.bw
       ELSE [g.bw EXCEPT
               !.rows = [@ EXCEPT ![brand_id] = [rating |-> new_avg_rating,
                                                 review_count |-> new_review_count]],
               !.cache = CacheDeleteEntity(up, @, brand_id)]

\* update_brand_rating(brand_id, new_rating, review_count_delta).
update_brand_rating(bw, up, brand_id, new_rating, review_count_delta) ==
    LET g == get_brand(bw, up, brand_id)
        BrandModel == g.val
        current_total == FMulInt(BrandModel.rating, BrandModel.review_count)
        new_total == FAdd(current_total, new_rating)
        new_review_count == BrandModel.review_count + review_count_delta
        new_avg_rating == IF new_review_count > 0
                          THEN FDivInt(new_total, new_review_count) ELSE Zero
    IN IF ~g.found THEN g.bw
       ELSE [g.bw EXCEPT
               !.rows = [@ EXCEPT ![brand_id] = [rating |-> new_avg_rating,
                                                 review_count |-> new_review_count]],
               !.cache = CacheDeleteEntity(up, @, brand_id)]

GetBrand(up, brand_id) ==
    /\ LET g == get_brand(BrandWorld(brand_reviews, brand_cache), up, brand_id)
       IN /\ brand_cache' = g.bw.cache
          /\ last' = [status |-> IF g.found THEN "ok" ELSE "not_found", val |-> g.val,
                      op |-> "get_brand", args |-> [id |-> brand_id]]
    /\ UNCHANGED <<cats, next_cat, category_cache, redis, products, next_prod,
                   product_cache, brands, nc_cats, nc_last, pc, brand_reviews,
                   views, stock, stock_cache, user, now, stock_net>>

\* The counters are kept within the bounds of the model.
UpdateBrandRating(up, brand_id, new_rating, review_count_delta) ==
    /\ LET bw == update_brand_rating(BrandWorld(brand_reviews, brand_cache), up, brand_id,
                                     new_rating, review_count_delta)
       IN /\ brand_id \in DOMAIN bw.rows =>
                /\ Abs(bw.rows[brand_id].review_count) <= MaxReviews
                /\ bw.rows[brand_id].rating.num <= MaxTotal * bw.rows[brand_id].rating.den
          /\ brand_reviews' = bw.rows
          /\ brand_cache' = bw.cache
          /\ last' = [status |-> "ok", val |-> NoBrand,
                      op |-> "update_brand_rating",
                      args |-> [id |-> brand_id, new_rating |-> new_rating,
                                review_count_delta |-> review_count_delta]]
    /\ UNCHANGED <<cats, next_cat, category_cache, redis, products, next_prod,
                   product_cache, brands, nc_cats, nc_last, pc,
                   views, stock, stock_cache, user, now, stock_net>>

Ratings == {Frac(0, 1), Frac(4, 1), Frac(5, 1), Frac(5, 2)}

\* Brand 1 is in the Store, brand 3 is not.
NextRating ==
    \/ \E b \in {1, 3} : GetBrand(TRUE, b)
    \/ \E b \in {1, 3}, r \in Ratings, d \in {0 - 1, 0, 1, 2} :
          UpdateBrandRating(TRUE, b, r, d)

SpecRating == Init /\ [][NextRating]_vars

\* C15: update_brand_rating(id, r, d) sets review_count to old_count + d and
\* rating to (old_rating * old_count + r) / (old_count + d) when
\* old_count + d > 0, and to 0 otherwise; from rating 0 and count 0,
\* (4.0, 1) gives (4.0, 1) and then (5.0, 1) gives (4.5, 2).
C15_RatingAggregation ==
    [][/\ \A b \in BrandIds :
             (last'.op = "update_brand_rating" /\ last'.args.id = b)
             => LET old == brand_reviews[b]
                    new == brand_reviews'[b]
                    r == last'.args.new_rating
                    n == old.review_count + last'.args.review_count_delta
                IN /\ new.review_count = n
                   /\ IF n > 0
                      THEN new.rating.num * (old.rating.den * r.den * n)
                             = new.rating.den * (old.rating.num * old.review_count * r.den
                                                   + r.num * old.rating.den)
                      ELSE new.rating.num = 0
       /\ LET start == BrandWorld([b \in {1} |-> NoBrand], Empty)
              one == update_brand_rating(start, TRUE, 1, Frac(4, 1), 1)
              two == update_brand_rating(one, TRUE, 1, Frac(5, 1), 1)
          IN /\ one.rows[1] = [rating |-> Frac(4, 1), review_count |-> 1]
             /\ two.rows[1] = [rating |-> Frac(9, 2), review_count |-> 2]]_vars

\* Brand 1 went from (0, 0) through (4.0, 1) to rating 4.5 with 2 reviews.
C15_Witness ==
    /\ last.op = "update_brand_rating"
    /\ last.args.id = 1
    /\ last.args.new_rating = Frac(5, 1)
    /\ last.args.review_count_delta = 1
    /\ brand_reviews[1] = [rating |-> Frac(9, 2), review_count |-> 2]

\* ------------------------------------------------------- reads and guards
\* C16: get_category(id) for an id that is absent from the Store returns
\* not-found and writes nothing to the cache.
C16_NoNegativeCaching ==
    [][\A c \in KnownIds :
          (GetCategory(TRUE, c) /\ c \notin DOMAIN cats)
          => /\ last'.status = "not_found"
             /\ category_cache' = category_cache
             /\ redis' = redis]_vars

\* C17: create_category, update_category and move_category called with a
\* non-null parent id that identifies no category of the Store (never
\* created, or deleted earlier) end with a validation error and leave the
\* Store as it was.  For update and move the category itself is in the Store.
MissingParent(p) == p # Null /\ p \notin DOMAIN cats

C17_ParentValidation ==
    [][/\ \A p \in KnownIds :
            (CreateCategory(TRUE, CategoryData(p, 0, TRUE, FALSE)) /\ MissingParent(p))
            => (last'.status = "validation" /\ cats' = cats)
       /\ \A c \in KnownIds, p \in KnownIds :
            (UpdateCategory(TRUE, c, ParentOnly(p)) /\ c \in DOMAIN cats /\ MissingParent(p))
            => (last'.status = "validation" /\ cats' = cats)
       /\ \A c \in KnownIds, p \in KnownIds :
            (MoveCategory(TRUE, c, p) /\ c \in DOMAIN cats /\ MissingParent(p))
            => (last'.status = "validation" /\ cats' = cats)]_vars

\* Bulk operations of every type on a Store whose categories differ in their
\* flags, with a working cache.
BulkOperations == {"activate", "deactivate", "feature", "unfeature", "delete"}

NextBulk ==
    \/ \E p \in {Null} \cup KnownIds, a \in BOOLEAN, f \in BOOLEAN :
          CreateCategory(TRUE, CategoryData(p, 0, a, f))
    \/ \E c \in KnownIds : GetCategory(TRUE, c)
    \/ \E ids \in NonEmptySubsets(KnownIds), o \in BulkOperations :
          BulkOperation(TRUE, o, ids)

SpecBulk == Init /\ [][NextBulk]_vars

\* C18: a bulk operation of any type on a list of ids of which at least one
\* is not in the Store is rejected and changes no category: no flag changes
\* and nothing is deleted.
C18_BulkExistenceAllOrNothing ==
    [][(/\ last'.op = "bulk_operation"
        /\ last'.args.operation \in BulkOperations
        /\ ~(last'.args.ids \subseteq DOMAIN cats))
       => (last'.status = "validation" /\ cats' = cats)]_vars

\* A rejected batch that names a missing id next to a category the operation
\* would have changed.
C18_Witness ==
    /\ last.op = "bulk_operation"
    /\ last.status = "validation"
    /\ ~(last.args.ids \subseteq DOMAIN cats)
    /\ \/ /\ last.args.operation = "deactivate"
          /\ \E c \in last.args.ids \cap DOMAIN cats : cats[c].is_active
       \/ /\ last.args.operation = "delete"
          /\ \E c \in last.args.ids \cap DOMAIN cats : Children(cats, c) = {}

\* Bulk delete of categories that products are attached to: two root
\* categories, one more category created under or beside them, products
\* created and deleted, working cache.
NextBulkDelete ==
    \/ \E p \in {Null, 1, 2} : CreateCategory(TRUE, CategoryData(p, 0, TRUE, FALSE))
    \/ \E ids \in NonEmptySubsets({1, 2}), st \in {"draft", "active"} :
          CreateProduct(TRUE, ProductData(ids, Null, st))
    \/ \E p \in KnownProds : DeleteProduct(TRUE, p)
    \/ \E ids \in NonEmptySubsets(1..MaxCats) : BulkOperation(TRUE, "delete", ids)

SpecBulkDelete == InitProd /\ [][NextBulkDelete]_vars

\* C19: a bulk "delete" on ids that are all in the Store fails as a whole and
\* deletes nothing if some id has a child in the Store or product_count > 0,
\* and deletes exactly the batch when every id is childless and
\* product-free.
Blocked(cs, id) == Children(cs, id) # {} \/ cs[id].product_count > 0

C19_BulkDeleteGuard ==
    [][(/\ last'.op = "bulk_operation"
        /\ last'.args.operation = "delete"
        /\ last'.args.ids \subseteq DOMAIN cats)
       => IF \E c \in last'.args.ids : Blocked(cats, c)
          THEN last'.status = "validation" /\ cats' = cats
          ELSE /\ last'.status = "ok"
               /\ cats' = [c \in DOMAIN cats \ last'.args.ids |-> cats[c]]]_vars

\* C20: whenever create_category, update_category, move_category,
\* delete_category or bulk_operation ends with a validation or not-found
\* error, the Store holds the same categories with the same parent_id,
\* display_order, is_active, is_featured and product_count as before the call.
CategoryMutations ==
    {"create_category", "update_category", "move_category",
     "delete_category", "bulk_operation"}

C20_ErrorLeavesStore ==
    [][(/\ last'.op \in CategoryMutations
        /\ last'.status \in {"validation", "not_found"})
       => cats' = cats]_vars

\* A rejected re-parenting of a stored category under one of its stored
\* descendants, and a rejected call on an id the Store does not hold.
C20_Witness ==
    \/ /\ last.op = "update_category"
       /\ last.status = "validation"
       /\ last.args.id \in DOMAIN cats
       /\ last.args.data.parent_id \in DescendantsOf(cats, last.args.id)
    \/ /\ last.op = "delete_category"
       /\ last.status = "validation"
       /\ Children(cats, last.args.id) # {}

\* ------------------------------------------------- commit, then the rest
\* Category mutations, one call at a time, next to two product requests whose
\* steps interleave: a commit fails when the object the handler holds came
\* from a cache entry whose row is gone (product) or when the new parent did
\* (category).
NextCommit ==
    \/ CreateCategory(TRUE, CategoryData(1, 0, TRUE, FALSE))
    \/ \E c \in {1, 2}, p \in {Null, MaxCats} : MoveCategory(TRUE, c, p)
    \/ \E c \in {1, 2} : DeleteCategory(TRUE, c, FALSE)
    \/ StartCreate(1, ProductData({1}, 1, "active"))
    \/ \E p \in KnownProds :
          StartRead(1, "update_product", p, ProductUpdate(TRUE, {2}, FALSE, Null))
    \/ \E p \in KnownProds :
          StartRead(2, "delete_product", p, ProductUpdate(FALSE, {}, FALSE, Null))
    \/ \E r \in Requests : Commit(r)
    \/ \E r \in Requests : CounterStep(r)
    \/ \E r \in Requests : Finish(r)

SpecCommit == InitProd /\ [][NextCommit]_vars

\* No counter differs between the two states of a step.
CountersKept ==
    /\ brands' = brands
    /\ \A c \in DOMAIN cats \cap DOMAIN cats' :
          cats'[c].product_count = cats[c].product_count

\* No entry of the cache was deleted or overwritten.
EntriesKept(old, new) == \A k \in DOMAIN old : k \in DOMAIN new /\ new[k] = old[k]

NothingInvalidated ==
    /\ EntriesKept(category_cache, category_cache')
    /\ EntriesKept(product_cache, product_cache')
    /\ EntriesKept(redis, redis')

\* The only entries that are new are the read-through populate of
\* get_category: the row as the Store holds it.
PopulateOnly ==
    /\ \A k \in DOMAIN category_cache' \ DOMAIN category_cache :
          k \in DOMAIN cats /\ category_cache'[k] = Snapshot(cats, k)
    /\ DOMAIN product_cache' = DOMAIN product_cache
    /\ DOMAIN redis' = DOMAIN redis

\* A category mutation whose commit raised.
FailedCategoryCommit ==
    /\ \/ CreateCategory(TRUE, CategoryData(1, 0, TRUE, FALSE))
       \/ \E c \in {1, 2}, p \in {Null, MaxCats} : MoveCategory(TRUE, c, p)
       \/ \E c \in {1, 2} : DeleteCategory(TRUE, c, FALSE)
    /\ last'.status = "store_error"

\* The commit of an update_product whose row is gone: the UPDATE matches no
\* row and raises.
FailedProductCommit(r) ==
    /\ Commit(r)
    /\ pc[r].op = "update_product"
    /\ pc[r].product_id \notin DOMAIN products

\* A step that adjusts a counter or removes or rewrites a product cache entry.
AdjustsOrInvalidates ==
    \/ ~CountersKept
    \/ ~EntriesKept(product_cache, product_cache')

\* C21 (as amended): a counter adjustment and a cache invalidation of a
\* mutation happen only in a request whose commit has succeeded; when the
\* commit fails the request ends, the Store and every counter are as before,
\* no cache entry is deleted or overwritten, and the only entry that may be
\* new is the read-through populate of the lookup at the handler's start,
\* which holds the committed row.
C21_CommitBeforeInvalidate ==
    [][/\ FailedCategoryCommit
          => (cats' = cats /\ CountersKept /\ NothingInvalidated /\ PopulateOnly)
       /\ \A r \in Requests :
             FailedProductCommit(r)
             => /\ pc'[r].op = "idle"
                /\ products' = products
                /\ CountersKept /\ NothingInvalidated /\ PopulateOnly
       /\ AdjustsOrInvalidates
          => \E r \in Requests : pc[r].op # "idle" /\ pc[r].stage = "committed"]_vars

\* A move whose commit failed, with the cache entry of the category still in
\* place and a product counted.
C21_Witness ==
    /\ last.op = "move_category"
    /\ last.status = "store_error"
    /\ last.args.id \in DOMAIN category_cache
    /\ \E c \in DOMAIN cats : cats[c].product_count > 0

\* C21 (as stated): when the commit fails no cache entry is written or
\* deleted and no counter is adjusted.
C21_NoCacheWriteOnFailure ==
    [][/\ FailedCategoryCommit
          => (CountersKept /\ category_cache' = category_cache /\ redis' = redis)
       /\ \A r \in Requests :
             FailedProductCommit(r)
             => (CountersKept /\ product_cache' = product_cache)]_vars

\* --------------------------------------------- concurrent category requests
\* Two category requests whose awaits interleave.  A re-parenting request
\* (move_category, or update_category with parent_id set) runs in three
\* steps: its lookups and cycle check, its commit, its cache invalidation.
\* A get_category that misses the cache runs in two: the query, then
\* cache.set_category of what the query loaded.
ParentMap(cs) == [c \in DOMAIN cs |-> cs[c].parent_id]

CategoryFlight(op, stage, category_id, new_parent_id, seen, val) ==
    [val |-> val, category_id |-> category_id, new_parent_id |-> new_parent_id,
     op |-> op, stage |-> stage, seen |-> seen]

Reparentings == {"move_category", "update_category"}

\* Mutant: the handler does not call _would_create_circular_reference.
ReparentBeginNoCheck(r, op, category_id, new_parent_id) ==
    /\ pc[r].op = "idle"
    /\ new_parent_id # Null
    /\ LET g1 == get_category(CurrentWorld, TRUE, category_id)
           g2 == get_category(g1.w, TRUE, new_parent_id)
           args == [id |-> category_id, new_parent_id |-> new_parent_id]
       IN IF ~g1.found
          THEN /\ category_cache' = g1.w.category_cache
               /\ last' = [status |-> "not_found", val |-> NoCategory, op |-> op, args |-> args]
               /\ pc' = pc
          ELSE IF ~g2.found
          THEN /\ category_cache' = g2.w.category_cache
               /\ last' = [status |-> "validation", val |-> NoCategory, op |-> op, args |-> args]
               /\ pc' = pc
          ELSE /\ category_cache' = g2.w.category_cache
               /\ last' = last
               /\ pc' = [pc EXCEPT ![r] =
                            CategoryFlight(op, "checked", category_id, new_parent_id,
                                           ParentMap(cats), NoCategory)]
    /\ UNCHANGED <<cats, next_cat, redis, products, next_prod, product_cache, brands,
                   nc_cats, nc_last, brand_reviews, brand_cache,
                   views, stock, stock_cache, user, now, stock_net>>

\* The handler up to its commit: get_category of the category and of the new
\* parent, then _would_create_circular_reference on the Store.  seen is the
\* parent_id column as the check read it.
ReparentBegin(r, op, category_id, new_parent_id) ==
    /\ pc[r].op = "idle"
    /\ new_parent_id # Null
    /\ LET g1 == get_category(CurrentWorld, TRUE, category_id)
           g2 == get_category(g1.w, TRUE, new_parent_id)
           args == [id |-> category_id, new_parent_id |-> new_parent_id]
       IN IF ~g1.found
          THEN /\ category_cache' = g1.w.category_cache
               /\ last' = [status |-> "not_found", val |-> NoCategory, op |-> op, args |-> args]
               /\ pc' = pc
          ELSE IF ~g2.found
                  \/ _would_create_circular_reference(cats, category_id, new_parent_id)
          THEN /\ category_cache' = g2.w.category_cache
               /\ last' = [status |-> "validation", val |-> NoCategory, op |-> op, args |-> args]
               /\ pc' = pc
          ELSE /\ category_cache' = g2.w.category_cache
               /\ last' = last
               /\ pc' = [pc EXCEPT ![r] =
                            CategoryFlight(op, "checked", category_id, new_parent_id,
                                           ParentMap(cats), NoCategory)]
    /\ UNCHANGED <<cats, next_cat, redis, products, next_prod, product_cache, brands,
                   nc_cats, nc_last, brand_reviews, brand_cache,
                   views, stock, stock_cache, user, now, stock_net>>

\* category.parent_id = new_parent_id; await db.commit().
ReparentCommit(r) ==
    /\ pc[r].op \in Reparentings
    /\ pc[r].stage = "checked"
    /\ LET f == pc[r]
           cs2 == [c \in DOMAIN cats |->
                     IF c = f.category_id
                     THEN [cats[c] EXCEPT !.parent_id = f.new_parent_id]
                     ELSE cats[c]]
       IN IF CommitOk(cats, cs2, f.category_id)
          THEN /\ cats' = cs2
               /\ pc' = [pc EXCEPT ![r].stage = "committed"]
               /\ last' = last
          ELSE /\ cats' = cats
               /\ pc' = [pc EXCEPT ![r] = [op |-> "idle"]]
               /\ last' = [status |-> "store_error", val |-> NoCategory,
                           op |-> f.op,
                           args |-> [id |-> f.category_id, new_parent_id |-> f.new_parent_id]]
    /\ UNCHANGED <<next_cat, category_cache, redis, products, next_prod, product_cache,
                   brands, nc_cats, nc_last, brand_reviews, brand_cache,
                   views, stock, stock_cache, user, now, stock_net>>

\* cache.delete_category(category_id); cache.delete("category_tree"); return.
ReparentFinish(r) ==
    /\ pc[r].op \in Reparentings
    /\ pc[r].stage = "committed"
    /\ LET w == InvalidateCategory(CurrentWorld, TRUE, pc[r].category_id)
       IN /\ category_cache' = w.category_cache
          /\ redis' = w.redis
    /\ last' = [status |-> "ok", val |-> NoCategory,
                op |-> pc[r].op,
                args |-> [id |-> pc[r].category_id, new_parent_id |-> pc[r].new_parent_id]]
    /\ pc' = [pc EXCEPT ![r] = [op |-> "idle"]]
    /\ UNCHANGED <<cats, next_cat, products, next_prod, product_cache, brands,
                   nc_cats, nc_last, brand_reviews, brand_cache,
                   views, stock, stock_cache, user, now, stock_net>>

\* get_category on the cache-miss path, up to the result of the query.
ReadQuery(r, category_id) ==
    /\ pc[r].op = "idle"
    /\ ~CacheHasEntity(TRUE, category_cache, category_id)
    /\ IF category_id \in DOMAIN cats
       THEN /\ pc' = [pc EXCEPT ![r] =
                         CategoryFlight("get_category", "loaded", category_id, Null,
                                        ParentMap(cats), Snapshot(cats, category_id))]
            /\ last' = last
       ELSE /\ pc' = pc
            /\ last' = [status |-> "not_found", val |-> NoCategory,
                        op |-> "get_category", args |-> [id |-> category_id]]
    /\ UNCHANGED <<cats, next_cat, category_cache, redis, products, next_prod,
                   product_cache, brands, nc_cats, nc_last, brand_reviews, brand_cache,
                   views, stock, stock_cache, user, now, stock_net>>

\* cache.set_category(category) of the loaded object, and the return.
ReadPopulate(r) ==
    /\ pc[r].op = "get_category"
    /\ pc[r].stage = "loaded"
    /\ category_cache' = CacheSetEntity(TRUE, category_cache, pc[r].category_id, pc[r].val)
    /\ last' = [status |-> "ok", val |-> pc[r].val,
                op |-> "get_category", args |-> [id |-> pc[r].category_id]]
    /\ pc' = [pc EXCEPT ![r] = [op |-> "idle"]]
    /\ UNCHANGED <<cats, next_cat, redis, products, next_prod, product_cache, brands,
                   nc_cats, nc_last, brand_reviews, brand_cache,
                   views, stock, stock_cache, user, now, stock_net>>

\* Two concurrent move_category requests over two root categories and a
\* child created under the first.
NextMoveRace ==
    \/ CreateCategory(TRUE, CategoryData(1, 0, TRUE, FALSE))
    \/ \E r \in Requests, c \in 1..MaxCats, p \in 1..MaxCats :
          ReparentBegin(r, "move_category", c, p)
    \/ \E r \in Requests : ReparentCommit(r)
    \/ \E r \in Requests : ReparentFinish(r)

SpecMoveRace == InitProd /\ [][NextMoveRace]_vars

Acyclic(cs) == \A c \in DOMAIN cs : ReachesRoot(cs, c, Cardinality(DOMAIN cs))

\* C22: two concurrent move_category calls can both succeed and leave a cycle
\* in the Store, and that is the only way a cycle arises: a step that takes
\* an acyclic Store to a cyclic one is the commit of a move whose cycle check
\* read a parent_id column that another commit has changed since.
C22_CycleOnlyByRace ==
    [][(Acyclic(cats) /\ ~Acyclic(cats'))
       => \E r \in Requests :
             /\ ReparentCommit(r)
             /\ pc[r].seen # ParentMap(cats)]_vars

\* move(1, new_parent=2) and move(2, new_parent=1) on the two root
\* categories have both returned their category, and each category is the
\* other's parent.
C22_Witness ==
    /\ pc = Idle
    /\ last.op = "move_category"
    /\ last.status = "ok"
    /\ {1, 2} \subseteq DOMAIN cats
    /\ cats[1].parent_id = 2
    /\ cats[2].parent_id = 1
    /\ ~Acyclic(cats)

\* One reading request and one re-parenting request whose steps interleave,
\* over two root categories and a child created under the first.
NextLateRead ==
    \/ CreateCategory(TRUE, CategoryData(1, 0, TRUE, FALSE))
    \/ \E c \in 1..MaxCats : ReadQuery(1, c)
    \/ ReadPopulate(1)
    \/ \E op \in Reparentings, c \in 1..MaxCats, p \in 1..MaxCats :
          ReparentBegin(2, op, c, p)
    \/ ReparentCommit(2)
    \/ ReparentFinish(2)

SpecLateRead == InitProd /\ [][NextLateRead]_vars

\* C23: once a get_category that missed the cache and a concurrent
\* move_category or update_category of the same id have both finished, the
\* cache entry of the id is absent or carries the parent_id the Store holds.
C23_NoStaleRepopulation ==
    pc = Idle
    => \A id \in DOMAIN category_cache :
          id \in DOMAIN cats => category_cache[id].parent_id = cats[id].parent_id

\* ------------------------------------------------------------- view counts
MaxViews == 2

\* Mutant: the counter is raised for the id whether or not the UPDATE matches
\* a row.
IncrementViewAnyId(cs, vs, category_id) ==
    [vs EXCEPT ![category_id] = @ + 1]

\* _increment_view_count: UPDATE categories SET view_count = view_count + 1
\* WHERE id = category_id, and its commit; no row, no change.
_increment_view_count(cs, vs, category_id) ==
    IF category_id \in DOMAIN cs
    THEN [vs EXCEPT ![category_id] = @ + 1]
    ELSE vs

\* get_category(category_id, increment_view): the counter is raised after a
\* cache hit and after a Store hit, not after a miss in both.
GetCategoryView(up, category_id, increment_view) ==
    /\ views[category_id] < MaxViews
    /\ LET g == get_category(CurrentWorld, up, category_id)
       IN /\ Apply("get_category", [id |-> category_id, increment_view |-> increment_view],
                   Result(g.w, IF g.found THEN "ok" ELSE "not_found", g.val))
          /\ views' = IF g.found /\ increment_view
                      THEN _increment_view_count(cats, views, category_id)
                      ELSE views
    /\ UNCHANGED <<next_cat, next_prod, nc_cats, nc_last, pc, brand_reviews, brand_cache,
                   stock, stock_cache, user, now, stock_net>>

\* Reads with and without increment_view between creations, moves (which
\* drop the cache entry of the moved category) and deletions (which leave
\* the entries of cascade-deleted children behind).
NextView ==
    \/ /\ next_cat <= MaxTreeCats
       /\ \E p \in {Null} \cup KnownTreeIds :
             CreateCategory(TRUE, CategoryData(p, 0, TRUE, FALSE))
    \/ \E c \in KnownTreeIds, p \in {Null} \cup KnownTreeIds : MoveCategory(TRUE, c, p)
    \/ \E c \in KnownTreeIds : DeleteCategory(TRUE, c, FALSE)
    \/ \E c \in KnownTreeIds, iv \in BOOLEAN : GetCategoryView(TRUE, c, iv)

SpecView == Init /\ [][NextView]_vars

\* C24: get_category(id, increment_view=True) on a category of the Store
\* raises its view_count by exactly 1, from the cache and from the Store
\* alike; it changes no other column and no other category, deletes and
\* overwrites no cache entry and adds at most the read-through entry of id.
\* With increment_view=False, or for an id absent from the Store, no
\* view_count changes.
C24_ViewCountSideEffect ==
    [][\A c \in KnownTreeIds, iv \in BOOLEAN :
          GetCategoryView(TRUE, c, iv)
          => /\ cats' = cats
             /\ \A d \in CatIds \ {c} : views'[d] = views[d]
             /\ views'[c] = IF iv /\ c \in DOMAIN cats THEN views[c] + 1 ELSE views[c]
             /\ redis' = redis
             /\ EntriesKept(category_cache, category_cache')
             /\ DOMAIN category_cache' \subseteq DOMAIN category_cache \cup {c}
             /\ c \in DOMAIN category_cache' \ DOMAIN category_cache
                => category_cache'[c] = Snapshot(cats, c)]_vars

\* Reads with increment_view have raised the counter of a category of the
\* Store to 2.
C24_Witness ==
    /\ last.op = "get_category"
    /\ last.status = "ok"
    /\ last.args.increment_view
    /\ last.args.id \in DOMAIN cats
    /\ views[last.args.id] = 2

\* ---------------------------------------------------- breadcrumbs, cached
\* get_category_breadcrumbs(category_id): every hop is a get_category, which
\* answers from the cache entry when there is one; the parent followed is
\* the parent_id of the object that call returned.  fuel bounds the walk.
RECURSIVE BreadcrumbWalk(_, _, _, _, _)
BreadcrumbWalk(w, up, current_id, breadcrumbs, fuel) ==
    LET g == get_category(w, up, current_id)
    IN IF ~g.found \/ fuel = 0
       THEN [w |-> g.w, val |-> breadcrumbs]
       ELSE IF g.val.parent_id # Null
            THEN BreadcrumbWalk(g.w, up, g.val.parent_id, <<g.val>> \o breadcrumbs, fuel - 1)
            ELSE [w |-> g.w, val |-> <<g.val>> \o breadcrumbs]

get_category_breadcrumbs(w, up, category_id) ==
    LET r == BreadcrumbWalk(w, up, category_id, <<>>, MaxWalk)
    IN Result(r.w, "ok", r.val)

GetCategoryBreadcrumbs(up, category_id) ==
    /\ Apply("get_category_breadcrumbs", [id |-> category_id],
             get_category_breadcrumbs(CurrentWorld, up, category_id))
    /\ UNCHANGED <<next_cat, next_prod, nc_cats, nc_last, pc, brand_reviews, brand_cache,
                   views, stock, stock_cache, user, now, stock_net>>

\* Breadcrumb reads between creations, moves and deletions with and without
\* force, working cache.
NextPath ==
    \/ \E p \in {Null} \cup KnownIds : CreateCategory(TRUE, CategoryData(p, 0, TRUE, FALSE))
    \/ \E c \in KnownIds, p \in {Null} \cup KnownIds : MoveCategory(TRUE, c, p)
    \/ \E c \in KnownIds, force \in BOOLEAN : DeleteCategory(TRUE, c, force)
    \/ \E c \in KnownIds : GetCategoryBreadcrumbs(TRUE, c)

SpecPath == Init /\ [][NextPath]_vars

\* C25: get_category_breadcrumbs(id) returns the empty list when id is not
\* in the Store, and otherwise the path of the current Store from a root
\* down to id: the first element is a root, the last is id, and every other
\* element is a child of the one before it.
C25_BreadcrumbPath ==
    last.op = "get_category_breadcrumbs"
    => LET path == last.val
           id == last.args.id
       IN IF id \notin DOMAIN cats
          THEN path = <<>>
          ELSE /\ Len(path) >= 1
               /\ path[Len(path)].id = id
               /\ \A i \in 1..Len(path) :
                     /\ path[i].id \in DOMAIN cats
                     /\ cats[path[i].id].parent_id =
                           IF i = 1 THEN Null ELSE path[i - 1].id

\* C26: after any sequence of create_category, update_category,
\* move_category, delete_category (with or without force) and bulk delete,
\* every non-null parent_id of the Store names a category of the Store.
C26_NoDanglingParent ==
    \A c \in DOMAIN cats : cats[c].parent_id # Null => cats[c].parent_id \in DOMAIN cats

\* A deletion has gone through and a parent link is left in the Store.
C26_Witness ==
    /\ last.op \in {"delete_category", "bulk_operation"}
    /\ last.status = "ok"
    /\ \E c \in DOMAIN cats : cats[c].parent_id # Null

\* ------------------------------------------------------ the frame of a move
\* move_category with the position of the request: has_position is
\* new_position is not None.
MaxPosition == 1

Positions == 0..MaxPosition

MoveCategoryTo(up, category_id, new_parent_id, has_position, new_position) ==
    /\ Apply("move_category",
             [id |-> category_id, new_parent_id |-> new_parent_id,
              has_position |-> has_position, new_position |-> new_position],
             move_category(CurrentWorld, up, category_id, new_parent_id,
                           has_position, new_position))
    /\ UNCHANGED <<next_cat, next_prod, nc_cats, nc_last, pc,
                   brand_reviews, brand_cache,
                   views, stock, stock_cache, user, now, stock_net>>

\* Categories created at either position, moved with and without a position,
\* deleted; one request at a time, working cache.
NextFrame ==
    \/ \E p \in {Null} \cup KnownIds, d \in Positions :
          CreateCategory(TRUE, CategoryData(p, d, TRUE, FALSE))
    \/ \E c \in KnownIds, p \in {Null} \cup KnownIds, has \in BOOLEAN, pos \in Positions :
          MoveCategoryTo(TRUE, c, p, has, pos)
    \/ \E c \in KnownIds : DeleteCategory(TRUE, c, FALSE)

SpecFrame == Init /\ [][NextFrame]_vars

\* C27: a successful move_category(A, new_parent_id, new_position) keeps the
\* set of categories, changes of A's row only parent_id (to new_parent_id)
\* and, when a position is given, display_order (to new_position), leaves the
\* row of every other category as it was, and every descendant of A before
\* the move is a descendant of A after it.
C27_MoveFrame ==
    [][(last'.op = "move_category" /\ last'.status = "ok")
       => LET A == last'.args.id
          IN /\ DOMAIN cats' = DOMAIN cats
             /\ A \in DOMAIN cats
             /\ cats'[A] = [cats[A] EXCEPT
                              !.parent_id = last'.args.new_parent_id,
                              !.display_order = IF last'.args.has_position
                                                THEN last'.args.new_position
                                                ELSE @]
             /\ \A c \in DOMAIN cats \ {A} : cats'[c] = cats[c]
             /\ DescendantsOf(cats, A) \subseteq DescendantsOf(cats', A)]_vars

\* A category with a descendant was moved under another category, to a
\* position it was given, and the descendant is still below it.
C27_Witness ==
    /\ last.op = "move_category" /\ last.status = "ok"
    /\ last.args.has_position /\ last.args.new_parent_id # Null
    /\ last.args.id \in DOMAIN cats
    /\ cats[last.args.id].parent_id = last.args.new_parent_id
    /\ cats[last.args.id].display_order = last.args.new_position
    /\ \E c \in DOMAIN cats :
          /\ cats[c].parent_id = last.args.id
          /\ cats[c].display_order # last.args.new_position

\* ------------------------------------------------- featured categories, cached
\* The orders in which SELECT ... ORDER BY display_order, product_count DESC
\* can return the rows of ids: rows equal in both columns come in any order.
Before(cs, x, y) ==
    \/ cs[x].display_order < cs[y].display_order
    \/ /\ cs[x].display_order = cs[y].display_order
       /\ cs[x].product_count >= cs[y].product_count

QueryOrders(cs, ids) ==
    {s \in [1..Cardinality(ids) -> ids] :
        /\ \A i, j \in DOMAIN s : i # j => s[i] # s[j]
        /\ \A i, j \in DOMAIN s : i < j => Before(cs, s[i], s[j])}

\* list[:limit]
Take(list, limit) ==
    SubSeq(list, 1, IF limit < Len(list) THEN limit ELSE Len(list))

FeaturedAndActive(cs) == {c \in DOMAIN cs : cs[c].is_featured /\ cs[c].is_active}

\* The featured list of the cache (cache.get_featured_categories /
\* set_featured_categories): one entry, the list it was last given.
FeaturedKey == "featured_categories"

\* get_featured_categories(limit): a cached list that is not empty is cut to
\* limit and returned; otherwise the query runs with LIMIT limit, rows being
\* the order the Store returns the featured and active rows in, and a result
\* that is not empty is cached as it is.
get_featured_categories(w, up, limit, rows) ==
    LET categories == Take([i \in DOMAIN rows |-> Snapshot(w.cats, rows[i])], limit)
    IN IF CacheHas(up, w.redis, FeaturedKey) /\ w.redis[FeaturedKey] # <<>>
       THEN Result(w, "ok", Take(w.redis[FeaturedKey], limit))
       ELSE IF categories # <<>>
            THEN Result([w EXCEPT !.redis = CacheSet(up, @, FeaturedKey, categories)],
                        "ok", categories)
            ELSE Result(w, "ok", categories)

MaxLimit == 2

GetFeaturedCategories(up, limit) ==
    /\ \E rows \in QueryOrders(cats, FeaturedAndActive(cats)) :
          Apply("get_featured_categories", [limit |-> limit],
                get_featured_categories(CurrentWorld, up, limit, rows))
    /\ UNCHANGED <<next_cat, next_prod, nc_cats, nc_last, pc,
                   brand_reviews, brand_cache,
                   views, stock, stock_cache, user, now, stock_net>>

\* Root categories created featured or not at either position, flags changed
\* and rows deleted in bulk, the featured list read with a limit of
\* 1..MaxLimit; one request at a time, working cache.
NextFeatured ==
    \/ \E d \in Positions, f \in BOOLEAN :
          CreateCategory(TRUE, CategoryData(Null, d, TRUE, f))
    \/ \E ids \in NonEmptySubsets(KnownIds), o \in BulkOperations :
          BulkOperation(TRUE, o, ids)
    \/ \E n \in 1..MaxLimit : GetFeaturedCategories(TRUE, n)

SpecFeatured == Init /\ [][NextFeatured]_vars

\* The same requests with the cache out of reach.
NextFeaturedNoCache ==
    \/ \E d \in Positions, f \in BOOLEAN :
          CreateCategory(FALSE, CategoryData(Null, d, TRUE, f))
    \/ \E ids \in NonEmptySubsets(KnownIds), o \in BulkOperations :
          BulkOperation(FALSE, o, ids)
    \/ \E n \in 1..MaxLimit : GetFeaturedCategories(FALSE, n)

SpecFeaturedNoCache == Init /\ [][NextFeaturedNoCache]_vars

\* C28: get_featured_categories(limit=n) returns the first min(n, k) of the
\* k categories that are featured and active in the Store at the time of the
\* call, in the order of the query, whatever limits earlier calls had and
\* whatever was featured, unfeatured, activated, deactivated or deleted since
\* the list was cached.
IdsOf(list) == [i \in DOMAIN list |-> list[i].id]

C28_FeaturedList ==
    last.op = "get_featured_categories"
    => \E s \in QueryOrders(cats, FeaturedAndActive(cats)) :
          IdsOf(last.val) = Take(s, last.args.limit)

\* ------------------------------------------------------ concurrent stock updates
MaxStock == 4

MaxQuantity == 2

\* One product in the Store with no stock and no cache entry.
OneProduct == [p \in {1} |-> [categories |-> {1}, status |-> "active", brand_id |-> Null]]

InitStock ==
    /\ cats = TwoRoots
    /\ nc_cats = Empty
    /\ next_cat = 3
    /\ category_cache = Empty
    /\ redis = Empty
    /\ products = OneProduct
    /\ next_prod = 2
    /\ product_cache = Empty
    /\ brands = [b \in BrandIds |-> 0]
    /\ last = [status |-> "ok", val |-> NoCategory, op |-> "init", args |-> [id |-> Null]]
    /\ nc_last = [status |-> "ok", val |-> NoCategory, op |-> "init", args |-> [id |-> Null]]
    /\ pc = Idle
    /\ brand_reviews = [b \in BrandIds |-> [rating |-> Zero, review_count |-> 0]]
    /\ brand_cache = Empty
    /\ views = [c \in CatIds |-> 0]
    /\ stock = [p \in ProdIds |-> 0]
    /\ stock_cache = Empty
    /\ user = NoFailures
    /\ now = 0
    /\ stock_net = [p \in ProdIds |-> 0]

\* get_product(product_id, increment_view=False) as update_stock uses it:
\* the stock_quantity of the cached entry, or of the row, which is then
\* cached.
StockRead(product_id) ==
    LET g == get_product(CurrentWorld, TRUE, product_id)
        hit == CacheHasEntity(TRUE, stock_cache, product_id)
    IN [product_cache |-> g.w.product_cache,
        stock_cache |-> IF g.found /\ ~hit
                        THEN CacheSetEntity(TRUE, stock_cache, product_id, stock[product_id])
                        ELSE stock_cache,
        found |-> g.found,
        stock_quantity |-> IF hit THEN stock_cache[product_id]
                           ELSE IF g.found THEN stock[product_id] ELSE 0]

\* The value the UPDATE writes: new_quantity as computed from the product
\* that was read; current is the column at the time of the UPDATE.
NewQuantity(current, stock_quantity, quantity, operation) ==
    CASE operation = "set" -> quantity
      [] operation = "add" -> stock_quantity + quantity
      [] operation = "subtract" -> stock_quantity - quantity
      [] OTHER -> current

StockOperations == {"set", "add", "subtract"}

StockFlight(stage, product_id, quantity, operation, stock_quantity) ==
    [operation |-> operation, product_id |-> product_id, op |-> "update_stock",
     stage |-> stage, stock_quantity |-> stock_quantity, quantity |-> quantity]

\* update_stock up to its UPDATE: the product is read, new_quantity computed
\* and checked.
StockBegin(r, product_id, quantity, operation) ==
    /\ pc[r].op = "idle"
    /\ LET g == StockRead(product_id)
           new_quantity == NewQuantity(0, g.stock_quantity, quantity, operation)
       IN /\ g.stock_quantity + quantity <= MaxStock
          /\ Abs(stock_net[product_id]) <= MaxStock
          /\ product_cache' = g.product_cache
          /\ stock_cache' = g.stock_cache
          /\ IF ~g.found
             THEN /\ last' = [status |-> "not_found", val |-> NoProduct,
                              op |-> "update_stock", args |-> [id |-> product_id]]
                  /\ pc' = pc
             ELSE IF operation \notin StockOperations \/ new_quantity < 0
             THEN /\ last' = [status |-> "validation", val |-> NoProduct,
                              op |-> "update_stock", args |-> [id |-> product_id]]
                  /\ pc' = pc
             ELSE /\ last' = last
                  /\ pc' = [pc EXCEPT ![r] = StockFlight("read", product_id, quantity,
                                                         operation, g.stock_quantity)]
    /\ UNCHANGED <<cats, next_cat, category_cache, redis, products, next_prod, brands,
                   nc_cats, nc_last, brand_reviews, brand_cache,
                   views, stock, user, now, stock_net>>

\* UPDATE products SET stock_quantity = new_quantity WHERE id = product_id,
\* and the commit.
StockWrite(r) ==
    /\ pc[r].op = "update_stock"
    /\ pc[r].stage = "read"
    /\ LET f == pc[r]
       IN stock' = [stock EXCEPT ![f.product_id] =
                       IF f.product_id \in DOMAIN products
                       THEN NewQuantity(@, f.stock_quantity, f.quantity, f.operation)
                       ELSE @]
    /\ pc' = [pc EXCEPT ![r].stage = "committed"]
    /\ UNCHANGED <<cats, next_cat, category_cache, redis, products, next_prod,
                   product_cache, brands, last, nc_cats, nc_last,
                   brand_reviews, brand_cache,
                   views, stock_cache, user, now, stock_net>>

\* cache.delete_product(product_id)
StockInvalidate(r) ==
    /\ pc[r].op = "update_stock"
    /\ pc[r].stage = "committed"
    /\ product_cache' = CacheDeleteEntity(TRUE, product_cache, pc[r].product_id)
    /\ stock_cache' = CacheDeleteEntity(TRUE, stock_cache, pc[r].product_id)
    /\ pc' = [pc EXCEPT ![r].stage = "invalidated"]
    /\ UNCHANGED <<cats, next_cat, category_cache, redis, products, next_prod, brands,
                   last, nc_cats, nc_last, brand_reviews, brand_cache,
                   views, stock, user, now, stock_net>>

\* return await self.get_product(product_id, increment_view=False): the call
\* has succeeded; its signed amount is added to stock_net.
StockReturn(r) ==
    /\ pc[r].op = "update_stock"
    /\ pc[r].stage = "invalidated"
    /\ LET f == pc[r]
           g == StockRead(f.product_id)
       IN /\ product_cache' = g.product_cache
          /\ stock_cache' = g.stock_cache
          /\ last' = [status |-> "ok", val |-> g.stock_quantity,
                      op |-> "update_stock",
                      args |-> [id |-> f.product_id, operation |-> f.operation,
                                quantity |-> f.quantity]]
          /\ stock_net' = [stock_net EXCEPT ![f.product_id] =
                              IF f.operation = "add" THEN @ + f.quantity
                              ELSE IF f.operation = "subtract" THEN @ - f.quantity
                              ELSE @]
    /\ pc' = [pc EXCEPT ![r] = [op |-> "idle"]]
    /\ UNCHANGED <<cats, next_cat, category_cache, redis, products, next_prod, brands,
                   nc_cats, nc_last, brand_reviews, brand_cache,
                   views, stock, user, now>>

\* Two requests adding to and subtracting from the stock of a product, and of
\* a product the Store does not hold.
NextStock ==
    \E r \in Requests :
        \/ \E p \in ProdIds, q \in 1..MaxQuantity, o \in {"add", "subtract"} :
              StockBegin(r, p, q, o)
        \/ StockWrite(r)
        \/ StockInvalidate(r)
        \/ StockReturn(r)

SpecStock == InitStock /\ [][NextStock]_vars

\* The same calls, one at a time: request 2 never starts.
NextStockSerial ==
    \/ \E p \in ProdIds, q \in 1..MaxQuantity, o \in {"add", "subtract"} :
          StockBegin(1, p, q, o)
    \/ StockWrite(1)
    \/ StockInvalidate(1)
    \/ StockReturn(1)

SpecStockSerial == InitStock /\ [][NextStockSerial]_vars

\* C29: for every interleaving of concurrent update_stock calls with "add"
\* or "subtract" on one product, once the calls have returned stock_quantity
\* is the initial quantity (0) plus the net amount of the calls that
\* succeeded, and stock_quantity is negative in no reachable state.
C29_StockNotLost ==
    /\ \A p \in ProdIds : stock[p] >= 0
    /\ pc = Idle => \A p \in DOMAIN products : stock[p] = stock_net[p]

\* stock_quantity is negative in no reachable state.
C29_NeverNegative == \A p \in ProdIds : stock[p] >= 0

\* ------------------------------------------------------------- account lockout
MAX_LOGIN_ATTEMPTS == 5

\* The lockout duration, in ticks of the clock.
ACCOUNT_LOCKOUT_DURATION_MINUTES == 2

MaxNow == 4

MaxLogins == 2

\* The address of the one account, and an address no account has.
Registered == "registered"

Emails == {Registered, "unknown"}

UserKey == "user"

NoUser ==
    [is_active |-> FALSE, status |-> "none", failed_login_attempts |-> 0,
     locked_until |-> Null, login_count |-> 0]

\* User.is_locked (a property): locked_until is set and lies in the future.
is_locked(usr, t) == usr.locked_until # Null /\ t < usr.locked_until

\* User.can_login(): what the method returns when it is called.
can_login(usr, t) ==
    usr.is_active /\ usr.status = "active" /\ ~is_locked(usr, t)

\* `user.can_login` as authenticate_user writes it, without a call: the
\* bound method, an object that is true whatever can_login() would return.
CanLoginAttribute(usr, t) == TRUE

\* authenticate_user(email, password): u is the users row, kv the cache, t
\* the clock; password_ok is verify_password(password, user.hashed_password).
\* get_user_by_email reads the cache first and caches a row it had to load;
\* _increment_failed_login_attempts, and _reset_failed_login_attempts with
\* _update_last_login, write the row from the user that was read and delete
\* the cache entry.
authenticate_user(u, kv, up, t, email, password_ok) ==
    LET hit == CacheHas(up, kv, UserKey)
        usr == IF hit THEN kv[UserKey] ELSE u
        kv1 == IF hit THEN kv ELSE CacheSet(up, kv, UserKey, u)
        new_attempts == usr.failed_login_attempts + 1
        account_locked_until ==
            IF new_attempts >= MAX_LOGIN_ATTEMPTS
            THEN t + ACCOUNT_LOCKOUT_DURATION_MINUTES
            ELSE Null
    IN IF email # Registered
       THEN [redis |-> kv, user |-> u, status |-> "none", val |-> NoUser]
       ELSE IF ~password_ok
       THEN [redis |-> CacheDelete(up, kv1, UserKey),
             user |-> [u EXCEPT !.failed_login_attempts = new_attempts,
                                !.locked_until = account_locked_until],
             status |-> "none", val |-> NoUser]
       ELSE IF ~CanLoginAttribute(usr, t)
       THEN [redis |-> kv1, user |-> u, status |-> "none", val |-> NoUser]
       ELSE [redis |-> CacheDelete(up, kv1, UserKey),
             user |-> [u EXCEPT !.failed_login_attempts = 0,
                                !.locked_until = Null,
                                !.login_count = usr.login_count + 1],
             status |-> "ok", val |-> usr]

AuthenticateUser(up, email, password_ok) ==
    /\ user.failed_login_attempts <= MAX_LOGIN_ATTEMPTS
    /\ user.login_count < MaxLogins
    /\ LET r == authenticate_user(user, redis, up, now, email, password_ok)
       IN /\ user' = r.user
          /\ redis' = r.redis
          /\ last' = [status |-> r.status, val |-> r.val,
                      op |-> "authenticate_user",
                      args |-> [email |-> email, password_ok |-> password_ok]]
    /\ UNCHANGED <<cats, next_cat, category_cache, products, next_prod, product_cache,
                   brands, nc_cats, nc_last, pc, brand_reviews, brand_cache,
                   views, stock, stock_cache, now, stock_net>>

\* Time passes.
Tick ==
    /\ now < MaxNow
    /\ now' = now + 1
    /\ UNCHANGED <<cats, next_cat, category_cache, redis, products, next_prod,
                   product_cache, brands, last, nc_cats, nc_last, pc,
                   brand_reviews, brand_cache,
                   views, stock, stock_cache, user, stock_net>>

\* Logins of one account with the right and with a wrong password, and of an
\* address without an account, as time passes; working cache.
NextAuth ==
    \/ \E e \in Emails, ok \in BOOLEAN : AuthenticateUser(TRUE, e, ok)
    \/ Tick

SpecAuth == Init /\ [][NextAuth]_vars

\* C30: the failed authenticate_user call that brings the account's failures
\* without a success in between to MAX_LOGIN_ATTEMPTS leaves the account
\* locked; while the lock has not expired authenticate_user returns no user,
\* with the correct password too, and then leaves the failure counter as it
\* is; a successful authentication of an account that is not locked sets the
\* counter to 0.
C30_AccountLockout ==
    [][\A ok \in BOOLEAN :
          AuthenticateUser(TRUE, Registered, ok)
          => /\ (~ok /\ user'.failed_login_attempts >= MAX_LOGIN_ATTEMPTS)
                   => is_locked(user', now')
             /\ is_locked(user, now)
                   => /\ last'.status = "none"
                      /\ ok => user'.failed_login_attempts = user.failed_login_attempts
             /\ (~is_locked(user, now) /\ last'.status = "ok")
                   => user'.failed_login_attempts = 0]_vars

\* The first and the last part of C30 alone: the lock is set with the
\* MAX_LOGIN_ATTEMPTS-th failure, and a success on an account that is not
\* locked resets the counter.
C30_LockSetAndReset ==
    [][\A ok \in BOOLEAN :
          AuthenticateUser(TRUE, Registered, ok)
          => /\ (~ok /\ user'.failed_login_attempts >= MAX_LOGIN_ATTEMPTS)
                   => is_locked(user', now')
             /\ (~is_locked(user, now) /\ last'.status = "ok")
                   => user'.failed_login_attempts = 0]_vars

=============================================================================
